---- MODULE Spec2Model ----
(***************************************************************************)
(* A state-machine model of the lobsterOS kernel core: the round-robin     *)
(* scheduler (threading/scheduler.rs), the timer interrupt path            *)
(* (interrupts.rs, process.rs) and the AHCI sector I/O protocol (disk.rs). *)
(***************************************************************************)
EXTENDS Integers, Naturals, Sequences, FiniteSets, TLC

(* ------------------------------------------------------------------ *)
(* Bounds of the model                                                *)
(* ------------------------------------------------------------------ *)

\* number of push_task calls explored
MaxPush == 3
\* number of timer ticks delivered to an enabled scheduler
MaxTicks == 64
\* width, in bits, the model gives to usize (the cursor only ever holds
\* a queue index, usize::MAX-1 or usize::MAX)
UsizeBits == 8
\* depth of timer interrupts taken inside the timer handler's own code
MaxNest == 1
\* number of read_sectors / write_sectors calls explored
MaxCalls == 3
\* number of deactivate calls counted for one process
MaxSaves == 2
\* number of syscalls the processes make between them
MaxSyscalls == 3
\* number of tasks that call read_sectors / write_sectors on one port
MaxCallers == 2
\* physical frames the memory map describes: 0 .. MaxFrame-1
MaxFrame == 4
\* regions in the memory map
MaxRegions == 2
\* allocate_frame calls on one allocator
MaxAllocs == 5
\* frames a BootInfoFrameAllocator is told to skip
MaxUsed == 2
\* heap blocks live at the same time
MaxLive == 2
\* 16-byte aligned addresses of the RSDP window in the model (32768 on the
\* machine)
MaxSlots == 3
\* highest bus number an MCFG entry names (255 on the machine)
MaxBus == 1
\* MCFG entries
MaxBridges == 2
\* devices of a bus in the model (32 on the machine)
DEVICE_COUNT == 2
\* functions of a device in the model (8 on the machine)
FUNCTION_COUNT == 2
\* highest directory cluster written on the disk (clusters start at 2)
MaxCluster == 3
\* 32-byte entries of a cluster in the model
EntriesPerCluster == 2
\* program headers of one ELF file
MaxHeaders == 2
\* entries of a page table in the model (512 on the machine): indices
\* 0 .. ENTRY_COUNT-1
ENTRY_COUNT == 3

(* ------------------------------------------------------------------ *)
(* Program constants                                                  *)
(* ------------------------------------------------------------------ *)

QUANTUM == 20

USIZE_MAX == 2^UsizeBits - 1

NoPid == 0

\* IS.TFES, and TFD's BSY and DRQ (the 0x88 mask)
TFES == 30
TFD_BSY == 7
TFD_DRQ == 3

\* bits 15..8 of CAP on the controllers explored: NCS (bits 12..8) of 0, 15
\* and 31, and NCS 31 with CAP.PSC (bit 13) set
CapHiValues == {0, 15, 31, 63}

\* allocator.rs: HEAP_SIZE = 0x100 * 0x1000
HEAP_SIZE == 1048576

\* the size classes of the fixed-block heap
BLOCK_SIZES == {8, 16, 32, 64, 128, 256, 512, 1024, 2048}

\* layouts the kernel asks the heap for: a boxed integer, a pointer, an
\* over-aligned structure
HeapLayouts == {[size |-> 4, align |-> 4], [size |-> 8, align |-> 8],
                [size |-> 16, align |-> 64]}

\* the user tasks on the scheduler queue, and the contexts that run kernel code
HeapTasks == {"t1", "t2", "t3"}
\* the user processes that make syscalls
StackTasks == {"p1", "p2"}
HeapContexts == {"main"} \cup HeapTasks

\* PageTableFlags: PRESENT | WRITABLE, and those with USER_ACCESSIBLE
PRESENT_WRITABLE == 3
PRESENT_WRITABLE_USER == 7

\* frames that hold page tables: the kernel's PDPT (PML4[0]) and its PD
\* (PDPT[0]), set up by the bootloader, and the USABLE frames the frame
\* allocator hands to new_page_table
KERNEL_PDPT == 1
KERNEL_PD == 2
UsableFrames == {10, 11}
TableFrames == {KERNEL_PDPT, KERNEL_PD} \cup UsableFrames

TableIndex == 0..(ENTRY_COUNT - 1)

\* PageTableEntry::new(): unused
UnusedEntry == [addr |-> 0, flags |-> 0]

\* PageTable::new() / zero()
ZeroTable == [i \in TableIndex |-> UnusedEntry]

\* what a kernel table entry may hold
KernelEntries == {UnusedEntry, [addr |-> 5, flags |-> PRESENT_WRITABLE],
                  [addr |-> 6, flags |-> PRESENT_WRITABLE_USER]}

\* size of a page and of a [u8; 0x1000] value
PAGE_SIZE == 4096

\* length of the file handed to the loader
FILE_LEN == 12288

\* first frame behind the kernel heap; init_heap maps the heap's pages to
\* the frames the allocator hands out one after the other
FIRST_HEAP_FRAME == 512

\* no program header loaded yet
NoHeader == [virt_addr |-> 0, mem_size |-> 0, offset |-> 0, file_size |-> 0]

\* PT_LOAD headers the files carry: virt_addr at several in-page offsets,
\* mem_size below, at and above page multiples
ProgramHeaders ==
    [virt_addr : {4194304, 4196352, 4198399, 4202496},
     mem_size : {0, 1, 2048, 2304, 4096, 4097, 8192},
     offset : {0, 2048},
     file_size : {0, 16, 2048, 4096}]

\* where the heap may have put the first value of the leaf node (offset from
\* HEAP_START, which is page aligned): on a page boundary, a little after
\* one, a little before one
ValsPtrs == {65536, 65640, 69624}

\* in-page offsets of the addresses compared
InPageOffsets == {0, 1, 2047, 4095}

\* RSDP_REGION starts here; the scan steps by 0x10
RSDP_START == 524288
RSDP_STEP == 16

\* sum of the bytes of b"RSD PTR "
SIGNATURE_SUM == 543

\* what the first 20 bytes at an address may be: the signature or other
\* bytes of the same sum, a checksum byte, the sum of oem_id and
\* rsdt_address, the revision
Descriptors ==
    [signature : {"RSD PTR ", "RSD PTR_"},
     checksum : {0, 123, 125},
     body : {100},
     revision : {0, 2}]

\* ECAM base of the first MCFG entry and the size of one entry's window
ECAM_BASE == 1073741824
ECAM_WINDOW == 268435456

\* header_type values: plain device, multifunction device, PCI-PCI bridge,
\* and what an absent function reads as
HEADER_DEVICE == 0
HEADER_MULTI == 128
HEADER_BRIDGE == 1
HEADER_ABSENT == 255

\* vendor_id of an absent function, and one of a present function
VENDOR_ABSENT == 65535
VENDOR_PRESENT == 32902

\* what a device may show: per function its vendor_id and header_type.
\* An absent function reads as all ones.
AbsentFunction == [vendor_id |-> VENDOR_ABSENT, header_type |-> HEADER_ABSENT]
PresentFunction(ht) == [vendor_id |-> VENDOR_PRESENT, header_type |-> ht]
DeviceShapes ==
    {[f \in 0..(FUNCTION_COUNT - 1) |-> AbsentFunction],
     [f \in 0..(FUNCTION_COUNT - 1) |->
         IF f = 0 THEN PresentFunction(HEADER_DEVICE) ELSE AbsentFunction],
     [f \in 0..(FUNCTION_COUNT - 1) |->
         IF f = 0 THEN PresentFunction(HEADER_MULTI) ELSE AbsentFunction],
     [f \in 0..(FUNCTION_COUNT - 1) |->
         IF f = 0 THEN PresentFunction(HEADER_MULTI)
         ELSE PresentFunction(HEADER_DEVICE)],
     [f \in 0..(FUNCTION_COUNT - 1) |->
         IF f = 0 THEN PresentFunction(HEADER_BRIDGE) ELSE AbsentFunction]}

\* the MCFG tables: one or more entries, start_bus <= end_bus
BusRanges ==
    {r \in [start_bus : 0..MaxBus, end_bus : 0..MaxBus] :
        r.start_bus <= r.end_bus}
McfgTables ==
    UNION {[1..n -> BusRanges] : n \in 1..MaxBridges}

\* width of the sector_count parameter of read_sectors
U16 == 65536

\* bytes of a sector as read_sectors sizes its buffer
SECTOR_BYTES == 512

\* directory entries get_data is called on: sizes around a sector
\* boundary and around 65535 sectors
FsFiles ==
    [file_size : {0, 1, 511, 512, 513, 1024, 33553920, 33554431, 33554432,
                  33554433},
     cluster : {2, 3, 9}]

\* boot sectors of FAT32 volumes: root_entry_count = 0, table_size_16 = 0
BootSectors ==
    [bytes_per_sector : {512},
     sectors_per_cluster : {1, 8},
     reserved_sector_count : {32},
     table_count : {2},
     table_size_16 : {0},
     table_size_32 : {1009},
     root_entry_count : {0}]

\* first byte of a directory entry: end of directory, deleted, '.', 'A'
ENTRY_END == 0
ENTRY_DELETED == 229
ENTRY_DOT == 46
ENTRY_LETTER == 65

\* attribute byte: long filename, directory, archive
ATTR_LFN == 15
ATTR_DIRECTORY == 16
ATTR_ARCHIVE == 32

\* root_cluster of the boot sector
ROOT_CLUSTER == 2

\* the 32 bytes of a directory entry, as far as parse_directory looks at
\* them: byte 0, the attribute byte, the name (a plain name, ".", "..", or
\* a name with a byte that is not UTF-8), the cluster
DirEntry(b0, at, nm, cl) ==
    [byte0 |-> b0, attributes |-> at, name |-> nm, cluster |-> cl]

\* the entries a directory cluster c may hold
EntryShapes(c) ==
    {DirEntry(ENTRY_END, 0, "", 0),
     DirEntry(ENTRY_DELETED, ATTR_ARCHIVE, "plain", 5),
     DirEntry(ENTRY_LETTER, ATTR_LFN, "plain", 0),
     DirEntry(ENTRY_DOT, ATTR_DIRECTORY, ".", c),
     DirEntry(ENTRY_LETTER, ATTR_ARCHIVE, "plain", 6),
     DirEntry(ENTRY_LETTER, ATTR_ARCHIVE, "not utf-8", 7),
     DirEntry(ENTRY_LETTER, ATTR_DIRECTORY, "plain", c + 1)}

\* system calls a task makes: id 0 = print_vga_text(ptr, len), 1 = exit,
\* others unknown; the len bytes at ptr are valid UTF-8 or not
SyscallArgs ==
    {a \in [id : 0..4, utf8 : BOOLEAN, len : 0..2] : a.utf8 \/ a.len > 0}

\* what a call of an extern "C" function returning () may leave in rax
ScratchValues == {-1, 0, 1, 4096}

\* sector counts the callers pass (u16): none, one, the last that fits one
\* PRDT entry, the first that does not, and the largest
SectorCounts == {0, 1, 8192, 8193, 65535}

VARIABLES
    \* struct Scheduler
    tasks,               \* VecDeque<Task>: sequence of [state, pid, process_state]
    current_task_ticks,  \* u32
    next_task_id,        \* u64
    current_task,        \* usize
    is_enabled,          \* bool
    \* the machine
    fault,               \* "none", "panic" (kernel panic), "hang" (endless loop)
    overflow_checks,     \* build profile: TRUE = arithmetic overflow panics
    \* history
    nticks,              \* ticks delivered while the scheduler was enabled
    nswitch,             \* executions of swap_tasks that selected a next task
    nempty,              \* quantum expiries that found no task to select
    acts,                \* pid -> how often the process was entered, saved and resumed
    since,               \* pid -> enabled ticks since it was pushed / last activated
    dropped,             \* task records removed from the queue, as they were at removal
    \* the CPU on the timer interrupt path
    pc,                  \* the code the CPU is executing
    rflags_if,           \* RFLAGS.IF: maskable interrupts are delivered
    sched_lock,          \* the SCHEDULER spin mutex is held
    frames,              \* interrupted code positions of the running context, innermost first
    ctx,                 \* pid -> the frames that deactivate saved with the context
    \* the AHCI port (registers are sets of bit positions) and the driver call
    cap_hi,              \* bits 15..8 of the HBA's CAP (host_capability)
    SACT,                \* port.sata_active
    CI,                  \* port.command_issue
    IS,                  \* port.interrupt_status
    TFD,                 \* port.task_file_data
    halted,              \* the HBA stopped processing after a task file error
    dpc,                 \* position of the read_sectors / write_sectors call
    op,                  \* "read" or "write"
    sector_count,        \* the call's sector_count argument
    slot,                \* the command slot the call chose
    result,              \* what the last call returned ("none" while it runs)
    ci_set,              \* history: the CI bits the call's writes have set, in order
    seen,                \* history: what ended the completion poll
    ncalls,              \* history: calls started
    \* callers of read_sectors / write_sectors on one port, preempted at will
    ports_lock,          \* the PORTS spin mutex: its holder, 0 when free
    cpc,                 \* caller -> position of its call ("out" between calls)
    cslot,               \* caller -> the command slot its call chose
    cres,                \* caller -> what its last call returned
    stale,               \* history: CI bits left set by calls that returned
    \* one port of an AHCI controller under init_device
    port_implemented,    \* the port's bit of the HBA's PI register
    sata_status,         \* port.sata_status (SSTS), a set of bit positions
    command_status,      \* port.command_status (CMD), a set of bit positions
    ipc,                 \* position of init_device in the port's loop iteration
    cr_clear_seen,       \* history: a read of CMD found CR clear
    \* the command table the driver filled last
    prdt,                \* PRDT[0].bit_field: [byte_count, interrupt]
    \* a frame allocator over the boot memory map
    memory_map,          \* sequence of regions [start, end, usable], in frame numbers
    fa_kind,             \* "none" before init, "BootInfo" or "Linear"
    fa_next,             \* LinearFrameAllocator.next / frames frame_iter has passed
    fa_used,             \* the `used` argument of BootInfoFrameAllocator::init
    returned,            \* history: what the allocate_frame calls returned, in order
    \* the kernel heap: FixedBlockAlloc behind ALLOCATOR
    free_list,           \* block size -> its free list, head first (addresses are offsets from HEAP_START)
    bump_next,           \* the first byte of the region no block was carved from yet
    live,                \* blocks handed out and not yet freed: [addr, layout]
    alloc_failed,        \* a call of alloc returned null
    carved,              \* history: block size -> addresses carved for it
    peak,                \* history: block size -> most blocks of it live at once
    reused,              \* history: an alloc was served from a free list
    \* the heap's spin lock, the kernel's main flow and the tasks' syscalls
    heap_lock,           \* ALLOCATOR's spin mutex: "free" or the context holding it
    hrun,                \* the context on the CPU: "main" or a task
    hif,                 \* RFLAGS.IF of the context on the CPU
    hpc,                 \* context -> the code it is at
    \* Process::new_page_table: the kernel's tables, the new PML4, physical memory
    npc,                 \* position inside new_page_table
    current_page_table,  \* the kernel's PML4: index -> entry [addr, flags]
    page_table,          \* the new PML4 (Box<PageTable>)
    phys,                \* frame -> the page table stored in it
    free_frames,         \* the frames the allocator has left, next first
    npt_result,          \* "none" while running, then "Some" or "None"
    \* elf::do_stuff: the loader's page map and the process's user mappings
    epc,                 \* position inside do_stuff
    program_header,      \* the PT_LOAD header being loaded (or the last one loaded)
    headers_seen,        \* program headers visited so far
    regions,             \* keys of the BTreeMap: the page addresses allocated
    vals_ptr,            \* heap offset of the first value of the BTreeMap's leaf node
    copy_i,              \* index of the copy loop
    working_offset,      \* bytes of the segment copied so far
    copies,              \* the copy_from_slice calls made for this header
    user_map,            \* page address -> frame mapped in the process's tables
    \* acpi::find_rsdp: the BIOS window and the scan
    rsdp_mem,            \* what each 16-byte aligned address of the window holds
    rsdp_i,              \* index of the address the scan is at
    rsdp_result,         \* "none" while scanning, then "Some", "None" or "panic"
    rsdp_found,          \* index of the address returned
    \* pci::enumerate_bus: the MCFG entries, the configuration spaces, the scan
    mcfg,                \* the MCFG entries
    config,              \* <<bus, device>> -> what the device's configuration space shows
    pci_pc,              \* position of enumerate_bus: "idle", "scan" or "done"
    bridge_i,            \* index of the MCFG entry being scanned
    bus,                 \* bus being scanned
    device,              \* device being scanned
    devices,             \* addresses of the configuration spaces recorded, in push order
    \* fs::File::get_data: the file, the boot sector, the read it issues
    fs_pc,               \* position of get_data: "idle", "reading" or "done"
    fs_file,             \* the directory entry: file_size and cluster
    boot_sector,         \* the fields of the boot sector get_data uses
    fs_request,          \* the read_sectors call: first_sector and sector_count
    fs_data,             \* the Vec returned: its len and capacity, or "Err"
    \* fs::parse_directory: the directory clusters on disk and the tree built
    disk,                \* cluster -> its 32-byte directory entries, in order
    pd_pc,               \* position of parse_directory: "idle", "parsing", "done" or "panic"
    pd_stack,            \* the nested parse_directory calls: cluster_idx, entry index, parent node
    attached,            \* the nodes pushed, in push order: parent node and entry (node 0 is the root)
    parses,              \* the parse_directory calls made: cluster and parent node
    \* syscall_wrapper / syscall_handler: one system call and what comes back
    sc_pc,               \* position of the call: "user", "handler", "free" or "returned"
    sc_args,             \* rax (id), rdi (ptr: are the bytes UTF-8), rsi (len) at the syscall instruction
    sc_rax,              \* rax
    sc_console,          \* what the call wrote to the console: "nothing", "text" or "numbers"
    \* the command header and command FIS of the slot the driver filled last
    cmd_header,          \* command_list_buffer[slot].bit_field0: [cfl, w]
    cmd_fis,             \* cmd_table.command_fis as FISRegH2D
    cmd_written,         \* history: what the call in progress has written so far
    tfd_read,            \* history: the value the call in progress read from TFD last, <<>> before
    lba,                 \* the lba argument of the call in progress
    \* the kernel stacks of processes inside syscall_wrapper
    st_run,              \* the process on the CPU, "none" when none is left
    st_if,               \* RFLAGS.IF of the CPU
    st_pc,               \* per process: the statement of syscall_wrapper / exit it is at
    st_rsp,              \* per process: the block its rsp points into, 0 for its user stack
    st_blk,              \* per process: the block setup_syscall_stack returned (r9), 0 outside a syscall
    st_pool,             \* blocks that dealloc has returned to the heap and alloc has not handed out again
    st_next,             \* the next block the heap carves
    st_frees,            \* history, per process: dealloc calls on the stack of the syscall in progress
    st_calls             \* history: syscalls started so far

schedVars == <<tasks, current_task_ticks, next_task_id, current_task, is_enabled>>
histVars == <<nticks, nswitch, nempty, acts, since, dropped>>
irqVars == <<pc, rflags_if, sched_lock, frames, ctx>>
diskVars == <<cap_hi, SACT, CI, IS, TFD, halted, dpc, op, sector_count, slot,
              result, ci_set, seen, ncalls>>
\* the state of the scheduler, interrupt and sector I/O models, less `fault`
kernelVars == <<schedVars, overflow_checks, histVars, irqVars, diskVars>>
portsVars == <<ports_lock, cpc, cslot, cres, stale>>
devVars == <<port_implemented, sata_status, command_status, ipc, cr_clear_seen>>
prdtVars == <<prdt>>
frameVars == <<memory_map, fa_kind, fa_next, fa_used, returned>>
heapVars == <<free_list, bump_next, live, alloc_failed, carved, peak, reused>>
heapLockVars == <<heap_lock, hrun, hif, hpc>>
pageVars == <<npc, current_page_table, page_table, phys, free_frames, npt_result>>
elfVars == <<epc, program_header, headers_seen, regions, vals_ptr, copy_i, working_offset, copies, user_map>>
rsdpVars == <<rsdp_mem, rsdp_i, rsdp_result, rsdp_found>>
pciVars == <<mcfg, config, pci_pc, bridge_i, bus, device, devices>>
fsVars == <<fs_pc, fs_file, boot_sector, fs_request, fs_data>>
dirVars == <<disk, pd_pc, pd_stack, attached, parses>>
syscallVars == <<sc_pc, sc_args, sc_rax, sc_console>>
cmdVars == <<cmd_header, cmd_fis, cmd_written, tfd_read, lba>>
stackVars == <<st_run, st_if, st_pc, st_rsp, st_blk, st_pool, st_next, st_frees, st_calls>>
\* the build profile and the state of the subsystems modelled further down
restVars == <<overflow_checks, portsVars, devVars, prdtVars, frameVars, heapVars, heapLockVars, pageVars, elfVars, rsdpVars, pciVars, fsVars, dirVars, syscallVars, cmdVars, stackVars>>
vars == <<tasks, current_task_ticks, next_task_id, current_task, is_enabled,
          fault, overflow_checks, nticks, nswitch, nempty, acts, since, dropped,
          pc, rflags_if, sched_lock, frames, ctx,
          cap_hi, SACT, CI, IS, TFD, halted, dpc, op, sector_count, slot,
          result, ci_set, seen, ncalls,
          ports_lock, cpc, cslot, cres, stale,
          port_implemented, sata_status, command_status, ipc, cr_clear_seen,
          prdt,
          memory_map, fa_kind, fa_next, fa_used, returned,
          free_list, bump_next, live, alloc_failed, carved, peak, reused,
          heap_lock, hrun, hif, hpc,
          npc, current_page_table, page_table, phys, free_frames, npt_result,
          epc, program_header, headers_seen, regions, vals_ptr, copy_i, working_offset, copies, user_map,
          rsdp_mem, rsdp_i, rsdp_result, rsdp_found,
          mcfg, config, pci_pc, bridge_i, bus, device, devices,
          fs_pc, fs_file, boot_sector, fs_request, fs_data,
          disk, pd_pc, pd_stack, attached, parses,
          sc_pc, sc_args, sc_rax, sc_console,
          cmd_header, cmd_fis, cmd_written, tfd_read, lba,
          st_run, st_if, st_pc, st_rsp, st_blk, st_pool, st_next, st_frees, st_calls>>
notStack == <<kernelVars, portsVars, devVars, prdtVars, frameVars, heapVars, heapLockVars, pageVars, elfVars, rsdpVars, pciVars, fsVars, dirVars, syscallVars, cmdVars>>
notSyscall == <<kernelVars, portsVars, devVars, prdtVars, frameVars, heapVars, heapLockVars, pageVars, elfVars, rsdpVars, pciVars, fsVars, dirVars,
    cmdVars,
    stackVars>>
notDir == <<kernelVars, portsVars, devVars, prdtVars, frameVars, heapVars, heapLockVars, pageVars, elfVars, rsdpVars, pciVars, fsVars,
    syscallVars,
    cmdVars,
    stackVars>>
notFs == <<kernelVars, portsVars, devVars, prdtVars, frameVars, heapVars, heapLockVars, pageVars, elfVars, rsdpVars, pciVars,
    dirVars,
    syscallVars,
    cmdVars,
    stackVars>>
notPci == <<kernelVars, portsVars, devVars, prdtVars, frameVars, heapVars, heapLockVars, pageVars, elfVars, rsdpVars,
    fsVars,
    dirVars,
    syscallVars,
    cmdVars,
    stackVars>>
notRsdp == <<kernelVars, portsVars, devVars, prdtVars, frameVars, heapVars, heapLockVars, pageVars, elfVars,
    pciVars,
    fsVars,
    dirVars,
    syscallVars,
    cmdVars,
    stackVars>>
notElf == <<kernelVars, portsVars, devVars, prdtVars, frameVars, heapVars, heapLockVars, pageVars,
    rsdpVars,
    pciVars,
    fsVars,
    dirVars,
    syscallVars,
    cmdVars,
    stackVars>>
notPages == <<kernelVars, portsVars, devVars, prdtVars, frameVars, heapVars, heapLockVars,
    elfVars,
    rsdpVars,
    pciVars,
    fsVars,
    dirVars,
    syscallVars,
    cmdVars,
    stackVars>>
notHeapLock == <<kernelVars, portsVars, devVars, prdtVars, frameVars, heapVars,
    pageVars,
    elfVars,
    rsdpVars,
    pciVars,
    fsVars,
    dirVars,
    syscallVars,
    cmdVars,
    stackVars>>
notHeap == <<kernelVars, portsVars, devVars, prdtVars, frameVars,
    heapLockVars,
    pageVars,
    elfVars,
    rsdpVars,
    pciVars,
    fsVars,
    dirVars,
    syscallVars,
    cmdVars,
    stackVars>>
notFrames == <<kernelVars, portsVars, devVars, prdtVars,
    heapVars,
    heapLockVars,
    pageVars,
    elfVars,
    rsdpVars,
    pciVars,
    fsVars,
    dirVars,
    syscallVars,
    cmdVars,
    stackVars>>
notDev == <<kernelVars, portsVars,
    prdtVars,
    frameVars,
    heapVars,
    heapLockVars,
    pageVars,
    elfVars,
    rsdpVars,
    pciVars,
    fsVars,
    dirVars,
    syscallVars,
    cmdVars,
    stackVars>>
\* what read_sectors / write_sectors leave alone besides the scheduler, the
\* CPU and the port
notPrdt == <<overflow_checks, portsVars, devVars,
    frameVars,
    heapVars,
    heapLockVars,
    pageVars,
    elfVars,
    rsdpVars,
    pciVars,
    fsVars,
    dirVars,
    syscallVars,
    cmdVars,
    stackVars>>

TaskState == {"READY", "RUNNING", "WAITING", "DONE"}

(* ------------------------------------------------------------------ *)
(* Helpers over the task queue                                        *)
(* ------------------------------------------------------------------ *)

\* VecDeque::get / get_mut: Some iff the 0-based index is in range
HasTask(ts, idx) == idx < Len(ts)

TaskAt(ts, idx) == ts[idx + 1]

\* task.state = st through get_mut(idx); nothing when get_mut is None
SetState(ts, idx, st) ==
    IF HasTask(ts, idx)
    THEN [ts EXCEPT ![idx + 1].state = st]
    ELSE ts

\* a removal that takes the slot after the cursor's
RemoveAt_next(ts, idx) ==
    IF idx + 1 < Len(ts)
    THEN [i \in 1..(Len(ts) - 1) |-> IF i <= idx + 1 THEN ts[i] ELSE ts[i + 1]]
    ELSE [i \in 1..(Len(ts) - 1) |-> ts[i]]

\* VecDeque::remove(idx)
RemoveAt(ts, idx) ==
    [i \in 1..(Len(ts) - 1) |-> IF i <= idx THEN ts[i] ELSE ts[i + 1]]

\* a deactivate that does not record the context
deactivate_lost(ts, idx) == ts

\* Process::deactivate, first return: the context is saved in process_state
deactivate(ts, idx) ==
    IF HasTask(ts, idx)
    THEN [ts EXCEPT ![idx + 1].process_state = "Some"]
    ELSE ts

Pids(ts) == {ts[i].pid : i \in 1..Len(ts)}

StateOf(ts, pid) ==
    LET i == CHOOSE i \in 1..Len(ts) : ts[i].pid = pid IN ts[i].state

(* ------------------------------------------------------------------ *)
(* Scheduler::get_next_task                                           *)
(* ------------------------------------------------------------------ *)

RECURSIVE get_next_task_loop(_, _, _, _)
get_next_task_loop(ts, cur, skips, gone) ==
    IF cur = USIZE_MAX /\ overflow_checks
    THEN [tasks |-> ts, current_task |-> cur, outcome |-> "panic", removed |-> gone,
          why |-> "overflow"]
    ELSE
    LET c1 == (cur + 1) % (USIZE_MAX + 1)
        c2 == IF c1 >= Len(ts) THEN 0 ELSE c1
    IN  IF ~HasTask(ts, c2)
        THEN \* the queue is empty: the loop never finds a task
             [tasks |-> ts, current_task |-> c2, outcome |-> "hang", removed |-> gone,
              why |-> "none"]
        ELSE
        LET st == TaskAt(ts, c2).state IN
        CASE st = "DONE" ->
               LET ts2 == RemoveAt(ts, c2)
                   gone2 == Append(gone, TaskAt(ts, c2))
               IN  IF c2 = 0 /\ overflow_checks
                   THEN [tasks |-> ts2, current_task |-> c2, outcome |-> "panic",
                         removed |-> gone2, why |-> "underflow"]
                   ELSE get_next_task_loop(ts2, (c2 + USIZE_MAX) % (USIZE_MAX + 1),
                                           0, gone2)
          [] st = "WAITING" ->
               IF skips + 1 >= Len(ts)
               THEN \* every task left is WAITING: the loop never ends
                    [tasks |-> ts, current_task |-> c2, outcome |-> "hang",
                     removed |-> gone, why |-> "none"]
               ELSE get_next_task_loop(ts, c2, skips + 1, gone)
          [] st = "RUNNING" ->
               [tasks |-> ts, current_task |-> c2, outcome |-> "panic", removed |-> gone,
                why |-> "running"]
          [] st = "READY" ->
               [tasks |-> ts, current_task |-> c2, outcome |-> "ready", removed |-> gone,
                why |-> "none"]

\* a search that starts at the outgoing task's own slot
get_next_task_stay(ts, cur) ==
    IF Len(ts) = 0
    THEN [tasks |-> ts, current_task |-> cur, outcome |-> "empty", removed |-> <<>>,
          why |-> "none"]
    ELSE get_next_task_loop(ts, (cur + USIZE_MAX) % (USIZE_MAX + 1), 0, <<>>)

get_next_task(ts, cur) ==
    IF Len(ts) = 0
    THEN [tasks |-> ts, current_task |-> cur, outcome |-> "empty", removed |-> <<>>,
          why |-> "none"]
    ELSE get_next_task_loop(ts, cur, 0, <<>>)

(* ------------------------------------------------------------------ *)
(* Scheduler::swap_tasks                                              *)
(* ------------------------------------------------------------------ *)

\* a swap_tasks that leaves the tick counter as it was
swap_tasks_keep(ts, cur) ==
    LET saved == deactivate(ts, cur)
        nx == get_next_task(saved, cur)
        sel == nx.outcome \in {"ready", "empty"} /\ HasTask(nx.tasks, nx.current_task)
    IN  [tasks |-> IF sel THEN SetState(nx.tasks, nx.current_task, "RUNNING")
                   ELSE nx.tasks,
         current_task |-> nx.current_task,
         current_task_ticks |-> current_task_ticks,
         outcome |-> nx.outcome,
         removed |-> nx.removed,
         why |-> nx.why,
         activated |-> IF sel THEN TaskAt(nx.tasks, nx.current_task).pid ELSE NoPid]

\* the result carries the new queue and cursor, the outcome of the search
\* and the pid of the task that was activated (NoPid when none was)
swap_tasks(ts, cur) ==
    LET saved == deactivate(ts, cur)
        nx == get_next_task(saved, cur)
        sel == nx.outcome \in {"ready", "empty"} /\ HasTask(nx.tasks, nx.current_task)
    IN  [tasks |-> IF sel THEN SetState(nx.tasks, nx.current_task, "RUNNING")
                   ELSE nx.tasks,
         current_task |-> nx.current_task,
         current_task_ticks |-> 0,
         outcome |-> nx.outcome,
         removed |-> nx.removed,
         why |-> nx.why,
         activated |-> IF sel THEN TaskAt(nx.tasks, nx.current_task).pid ELSE NoPid]

FaultOf(outcome) ==
    IF outcome \in {"panic", "hang"} THEN outcome ELSE "none"

(* ------------------------------------------------------------------ *)
(* History bookkeeping                                                *)
(* ------------------------------------------------------------------ *)

SinceCap == MaxPush * QUANTUM + 1

\* every queued task has waited `elapsed` more ticks, except the activated one
Waited(ts, old, elapsed, activated) ==
    [p \in Pids(ts) |->
        IF p = activated THEN 0
        ELSE IF p \in DOMAIN old
             THEN IF old[p] + elapsed > SinceCap THEN SinceCap ELSE old[p] + elapsed
             ELSE 0]

SeqToSet(s) == {s[i] : i \in 1..Len(s)}

\* the elements of a set of numbers, in increasing order
RECURSIVE SetToSeq(_)
SetToSeq(S) ==
    IF S = {} THEN <<>>
    ELSE LET m == CHOOSE i \in S : \A j \in S : i <= j
         IN  <<m>> \o SetToSeq(S \ {m})

(* ------------------------------------------------------------------ *)
(* Initial states                                                     *)
(* ------------------------------------------------------------------ *)

\* the SCHEDULER static, nothing observed yet
SchedulerInit ==
    /\ tasks = <<>>
    /\ current_task_ticks = 0
    /\ next_task_id = 0
    /\ current_task = USIZE_MAX - 1
    /\ is_enabled = FALSE
    /\ nticks = 0
    /\ nswitch = 0
    /\ nempty = 0
    /\ acts = <<>>
    /\ since = <<>>
    /\ dropped = {}

\* the CPU in lib.rs init, after interrupts::enable() and before the
\* scheduler is locked
CpuInit ==
    /\ fault = "none"
    /\ pc = "k_init"
    /\ rflags_if = TRUE
    /\ sched_lock = FALSE
    /\ frames = <<>>
    /\ ctx = <<>>

\* a port that init_device brought up, no call made yet
PortInit ==
    /\ CI = {}
    /\ IS = {}
    /\ TFD = {}
    /\ halted = FALSE
    /\ dpc = "idle"
    /\ op = "read"
    /\ sector_count = 1
    /\ slot = 0
    /\ result = "none"
    /\ ci_set = <<>>
    /\ seen = "none"
    /\ ncalls = 0

Callers == 1..MaxCallers

\* PORTS unlocked, no caller inside read_sectors / write_sectors
CallersInit ==
    /\ ports_lock = 0
    /\ cpc = [c \in Callers |-> "out"]
    /\ cslot = [c \in Callers |-> 0]
    /\ cres = [c \in Callers |-> "none"]
    /\ stale = {}

\* a port of the controller before the firmware hands it over
DevInit ==
    /\ port_implemented = TRUE
    /\ sata_status = {0, 8}
    /\ command_status = {}
    /\ ipc = "reset"
    /\ cr_clear_seen = FALSE

\* command tables come from alloc_zeroed
PrdtInit ==
    /\ prdt = [byte_count |-> 0, interrupt |-> 0]

\* no frame allocator constructed yet
FramesInit ==
    /\ memory_map = <<>>
    /\ fa_kind = "none"
    /\ fa_next = 0
    /\ fa_used = 0
    /\ returned = <<>>

\* the heap after init_heap: every list empty, nothing carved
HeapInit ==
    /\ free_list = [c \in BLOCK_SIZES |-> <<>>]
    /\ bump_next = 0
    /\ live = {}
    /\ alloc_failed = FALSE
    /\ carved = [c \in BLOCK_SIZES |-> {}]
    /\ peak = [c \in BLOCK_SIZES |-> 0]
    /\ reused = FALSE

\* kernel_main runs on after lobster::init(), the scheduler enabled, the tasks
\* not yet entered
HeapLockInit ==
    /\ heap_lock = "free"
    /\ hrun = "main"
    /\ hif = TRUE
    /\ hpc = [c \in HeapContexts |-> IF c = "main" THEN "code" ELSE "user"]

\* no page table requested yet
PagesInit ==
    /\ npc = "idle"
    /\ current_page_table = ZeroTable
    /\ page_table = ZeroTable
    /\ phys = [f \in TableFrames |-> ZeroTable]
    /\ free_frames = <<>>
    /\ npt_result = "none"

\* do_stuff not called yet
ElfInit ==
    /\ epc = "idle"
    /\ program_header = NoHeader
    /\ headers_seen = 0
    /\ regions = {}
    /\ vals_ptr = 0
    /\ copy_i = 0
    /\ working_offset = 0
    /\ copies = {}
    /\ user_map = <<>>

\* find_rsdp not called yet
RsdpInit ==
    /\ rsdp_mem = <<>>
    /\ rsdp_i = 0
    /\ rsdp_result = "none"
    /\ rsdp_found = 0

\* enumerate_bus not called yet
PciInit ==
    /\ mcfg = <<>>
    /\ config = <<>>
    /\ pci_pc = "idle"
    /\ bridge_i = 0
    /\ bus = 0
    /\ device = 0
    /\ devices = <<>>

\* get_data not called yet
FsInit ==
    /\ fs_pc = "idle"
    /\ fs_file = [file_size |-> 0, cluster |-> 2]
    /\ boot_sector = [bytes_per_sector |-> 512, sectors_per_cluster |-> 1,
                    reserved_sector_count |-> 0, table_count |-> 0,
                    table_size_16 |-> 0, table_size_32 |-> 0,
                    root_entry_count |-> 0]
    /\ fs_request = [first_sector |-> 0, sector_count |-> 0]
    /\ fs_data = [len |-> 0, capacity |-> 0]

\* fs::init has not parsed the root directory yet
DirInit ==
    /\ disk = <<>>
    /\ pd_pc = "idle"
    /\ pd_stack = <<>>
    /\ attached = <<>>
    /\ parses = {}

\* the task is in user mode
SyscallInit ==
    /\ sc_pc = "user"
    /\ sc_args = [id |-> 0, utf8 |-> TRUE, len |-> 0]
    /\ sc_rax = 0
    /\ sc_console = "nothing"

\* no command has been set up
CmdInit ==
    /\ cmd_header = [cfl |-> 0, w |-> 0]
    /\ cmd_fis = [fis_type |-> 0, c |-> 0, command |-> 0, lba |-> <<0, 0, 0, 0, 0, 0>>,
                  device |-> 0, count |-> 0]
    /\ cmd_written = {}
    /\ tfd_read = <<>>
    /\ lba = 0

\* every process is in user mode, interrupts on, nothing freed yet
StackInit ==
    /\ st_run = "p1"
    /\ st_if = TRUE
    /\ st_pc = [t \in StackTasks |-> "user"]
    /\ st_rsp = [t \in StackTasks |-> 0]
    /\ st_blk = [t \in StackTasks |-> 0]
    /\ st_pool = {}
    /\ st_next = 1
    /\ st_frees = [t \in StackTasks |-> 0]
    /\ st_calls = 0

\* the subsystems modelled further down, before their first operation
RestInit ==
    /\ CallersInit
    /\ DevInit
    /\ PrdtInit
    /\ FramesInit
    /\ HeapInit
    /\ HeapLockInit
    /\ PagesInit
    /\ ElfInit
    /\ RsdpInit
    /\ PciInit
    /\ FsInit
    /\ DirInit
    /\ SyscallInit
    /\ CmdInit
    /\ StackInit

\* the kernel on a 32-slot controller, built with or without overflow checks
Init ==
    /\ SchedulerInit
    /\ CpuInit
    /\ PortInit
    /\ RestInit
    /\ overflow_checks \in BOOLEAN
    /\ cap_hi \in {c \in CapHiValues : c = 31}
    /\ SACT = {}

\* the driver on each of the controllers explored
InitDisk ==
    /\ SchedulerInit
    /\ CpuInit
    /\ PortInit
    /\ RestInit
    /\ overflow_checks \in BOOLEAN
    /\ cap_hi \in CapHiValues
    /\ SACT \in {{}, {0}}

(* ------------------------------------------------------------------ *)
(* Operations                                                         *)
(* ------------------------------------------------------------------ *)

\* Scheduler::enable
enable ==
    /\ fault = "none"
    /\ is_enabled' = TRUE
    /\ UNCHANGED <<tasks, current_task_ticks, next_task_id, current_task,
                   fault, restVars, histVars, irqVars, diskVars>>

\* a push_task that numbers the new task by its place in the queue
push_task_core_reuse ==
    /\ fault = "none"
    /\ next_task_id < 2 * MaxPush
    /\ tasks' = Append(tasks, [state |-> "READY", pid |-> 2 * Len(tasks) + 1,
                               process_state |-> "None"])
    /\ next_task_id' = next_task_id + 2
    /\ UNCHANGED <<current_task_ticks, current_task, is_enabled, fault,
                   restVars>>

\* Scheduler::push_task, the scheduler's part
push_task_core ==
    /\ fault = "none"
    /\ next_task_id < 2 * MaxPush
    /\ tasks' = Append(tasks, [state |-> "READY", pid |-> next_task_id + 1,
                               process_state |-> "None"])
    /\ next_task_id' = next_task_id + 2
    /\ UNCHANGED <<current_task_ticks, current_task, is_enabled, fault,
                   restVars>>

push_task ==
    /\ push_task_core
    /\ UNCHANGED <<histVars, irqVars, diskVars>>

\* the effect of an executed swap_tasks on the scheduler and the machine
ApplySwap(sw) ==
    /\ tasks' = sw.tasks
    /\ current_task' = sw.current_task
    /\ current_task_ticks' = sw.current_task_ticks
    /\ fault' = FaultOf(sw.outcome)
    /\ dropped' = dropped \cup SeqToSet(sw.removed)

\* a tick that forgets to mark the preempted task READY
Preempted_unmarked(ts, idx) == ts

\* the task state tick leaves behind for the preempted task
Preempted(ts, idx) == SetState(ts, idx, "READY")

\* the swap_tasks call of a tick that ends the quantum
TickSwap == swap_tasks(Preempted(tasks, current_task), current_task)

\* a quantum that lasts one tick longer
Expired_late == current_task_ticks + 1 > QUANTUM

\* the quantum test of tick, after its increment
Expired == current_task_ticks + 1 >= QUANTUM

\* a tick that does not look at is_enabled
tick_core_always ==
    /\ fault = "none"
    /\ IF Expired
       THEN ApplySwap(TickSwap)
       ELSE /\ current_task_ticks' = current_task_ticks + 1
            /\ UNCHANGED <<tasks, current_task, fault, dropped>>
    /\ UNCHANGED <<next_task_id, is_enabled, restVars>>

\* Scheduler::tick, the scheduler's part
tick_core ==
    /\ fault = "none"
    /\ IF ~is_enabled
       THEN UNCHANGED <<tasks, current_task_ticks, current_task, fault, dropped>>
       ELSE IF Expired
            THEN ApplySwap(TickSwap)
            ELSE /\ current_task_ticks' = current_task_ticks + 1
                 /\ UNCHANGED <<tasks, current_task, fault, dropped>>
    /\ UNCHANGED <<next_task_id, is_enabled, restVars>>

tick ==
    /\ tick_core
    /\ UNCHANGED <<nticks, nswitch, nempty, acts, since, irqVars, diskVars>>

\* a block_current that leaves the outgoing task RUNNING
BlockSwap_unmarked == swap_tasks(tasks, current_task)

\* the swap_tasks call of block_current
BlockSwap == swap_tasks(SetState(tasks, current_task, "WAITING"), current_task)

\* Scheduler::block_current, the scheduler's part
block_current_core ==
    /\ fault = "none"
    /\ ApplySwap(BlockSwap)
    /\ UNCHANGED <<next_task_id, is_enabled, restVars>>

\* Scheduler::block_current
block_current ==
    /\ block_current_core
    /\ UNCHANGED <<nticks, nswitch, nempty, acts, since, irqVars, diskVars>>

\* Scheduler::end_task
end_task(pid) ==
    /\ fault = "none"
    /\ IF pid \in Pids(tasks)
       THEN tasks' = [i \in 1..Len(tasks) |->
                        IF tasks[i].pid = pid
                        THEN [tasks[i] EXCEPT !.state = "DONE"]
                        ELSE tasks[i]]
       ELSE UNCHANGED tasks
    /\ UNCHANGED <<current_task_ticks, next_task_id, current_task, is_enabled,
                   fault, restVars, histVars, irqVars, diskVars>>

\* the swap_tasks call of end_current_task
EndSwap == swap_tasks(SetState(tasks, current_task, "DONE"), current_task)

\* Scheduler::end_current_task, the scheduler's part
end_current_task_core ==
    /\ fault = "none"
    /\ IF ~HasTask(tasks, current_task)
       THEN \* expect("failed to get current task")
            /\ fault' = "panic"
            /\ UNCHANGED <<schedVars, dropped>>
       ELSE /\ ApplySwap(EndSwap)
            /\ UNCHANGED <<next_task_id, is_enabled>>
    /\ UNCHANGED restVars

\* Scheduler::end_current_task
end_current_task ==
    /\ end_current_task_core
    /\ UNCHANGED <<nticks, nswitch, nempty, acts, since, irqVars, diskVars>>

Next ==
    \/ enable
    \/ push_task
    \/ tick
    \/ block_current
    \/ \E pid \in 1..(2 * MaxPush) : end_task(pid)
    \/ end_current_task

Spec == Init /\ [][Next]_vars

(* ------------------------------------------------------------------ *)
(* Busy-loop tasks: nothing blocks or exits, the timer is observed    *)
(* ------------------------------------------------------------------ *)

\* push_task with the new task's waiting time started
push_task_observed ==
    /\ push_task_core
    /\ since' = Waited(tasks', since, 0, NoPid)
    /\ UNCHANGED <<nticks, nswitch, nempty, acts, dropped, irqVars, diskVars>>

\* tick with the timer ticks, the context switches and the waits counted
tick_observed ==
    /\ nticks < MaxTicks
    /\ tick_core
    /\ UNCHANGED <<acts, irqVars, diskVars>>
    /\ IF ~is_enabled
       THEN UNCHANGED <<nticks, nswitch, nempty, since>>
       ELSE /\ nticks' = nticks + 1
            /\ nswitch' = IF Expired /\ TickSwap.activated # NoPid
                          THEN nswitch + 1 ELSE nswitch
            /\ nempty' = IF Expired /\ TickSwap.activated = NoPid
                         THEN nempty + 1 ELSE nempty
            /\ since' = Waited(tasks', since, 1,
                               IF Expired THEN TickSwap.activated ELSE NoPid)

NextBusy ==
    \/ enable
    \/ push_task_observed
    \/ tick_observed

SpecBusy == Init /\ [][NextBusy]_vars

(* ------------------------------------------------------------------ *)
(* The timer interrupt path, instruction range by instruction range   *)
(* ------------------------------------------------------------------ *)

\* code between the timer handler's EOI write and the return to a task
SwitchCode == {"irq_lock", "irq_tick", "activate", "activate_restore"}

\* lib.rs init: let mut scheduler = SCHEDULER.lock()
init_lock ==
    /\ fault = "none"
    /\ pc = "k_init"
    /\ IF sched_lock
       THEN fault' = "hang" /\ UNCHANGED <<pc, sched_lock>>
       ELSE sched_lock' = TRUE /\ pc' = "k_locked" /\ UNCHANGED fault
    /\ UNCHANGED <<schedVars, restVars, histVars, rflags_if, frames, ctx, diskVars>>

\* lib.rs init: scheduler.push_task(process)
init_push_task ==
    /\ pc = "k_locked"
    /\ push_task_core
    /\ pc' = "k_pushed"
    /\ UNCHANGED <<histVars, rflags_if, sched_lock, frames, ctx, diskVars>>

\* lib.rs init: scheduler.enable()
init_enable ==
    /\ fault = "none"
    /\ pc = "k_pushed"
    /\ is_enabled' = TRUE
    /\ pc' = "k_enabled"
    /\ UNCHANGED <<tasks, current_task_ticks, next_task_id, current_task,
                   fault, restVars, histVars, rflags_if, sched_lock, frames, ctx, diskVars>>

\* lib.rs init returns: the guard is dropped, the kernel idles
init_return ==
    /\ fault = "none"
    /\ pc = "k_enabled"
    /\ sched_lock' = FALSE
    /\ pc' = "k_idle"
    /\ UNCHANGED <<schedVars, fault, restVars, histVars, rflags_if, frames, ctx, diskVars>>

\* the CPU takes IRQ0 through the interrupt gate: IF is cleared, the
\* interrupted position is pushed
timer_interrupt ==
    /\ fault = "none"
    /\ rflags_if
    /\ Len(frames) <= MaxNest
    /\ frames' = <<pc>> \o frames
    /\ pc' = "irq_eoi"
    /\ rflags_if' = FALSE
    /\ UNCHANGED <<schedVars, fault, restVars, histVars, sched_lock, ctx, diskVars>>

\* timer_interrupt_handler: PICS.lock().notify_end_of_interrupt(..)
irq_eoi ==
    /\ fault = "none"
    /\ pc = "irq_eoi"
    /\ pc' = "irq_lock"
    /\ UNCHANGED <<schedVars, fault, restVars, histVars,
                   rflags_if, sched_lock, frames, ctx, diskVars>>

\* timer_interrupt_handler: SCHEDULER.lock(); a held lock is spun on for ever,
\* its holder being the interrupted code
irq_lock ==
    /\ fault = "none"
    /\ pc = "irq_lock"
    /\ IF sched_lock
       THEN fault' = "hang" /\ UNCHANGED <<pc, sched_lock>>
       ELSE sched_lock' = TRUE /\ pc' = "irq_tick" /\ UNCHANGED fault
    /\ UNCHANGED <<schedVars, restVars, histVars, rflags_if, frames, ctx, diskVars>>

\* the frames deactivate saves for the task at the cursor
SaveCtx(ts, idx) ==
    IF HasTask(ts, idx)
    THEN [p \in DOMAIN ctx \cup {TaskAt(ts, idx).pid} |->
            IF p = TaskAt(ts, idx).pid THEN frames ELSE ctx[p]]
    ELSE ctx

\* timer_interrupt_handler: .tick(), up to the call of activate or the return
irq_tick ==
    /\ pc = "irq_tick"
    /\ tick_core
    /\ IF is_enabled /\ Expired
       THEN /\ ctx' = SaveCtx(tasks, current_task)
            /\ IF TickSwap.activated # NoPid
               THEN \* SCHEDULER.force_unlock(); next_task.process.activate()
                    sched_lock' = FALSE /\ pc' = "activate"
               ELSE IF FaultOf(TickSwap.outcome) # "none"
                    THEN UNCHANGED <<sched_lock, pc>>
                    ELSE sched_lock' = FALSE /\ pc' = "irq_ret"
       ELSE /\ sched_lock' = FALSE
            /\ pc' = "irq_ret"
            /\ UNCHANGED ctx
    /\ UNCHANGED <<nticks, nswitch, nempty, acts, since, rflags_if, frames, diskVars>>

\* Process::activate: Cr3::write, tlb::flush_all, interrupts::enable()
activate ==
    /\ fault = "none"
    /\ pc = "activate"
    /\ rflags_if' = TRUE
    /\ pc' = "activate_restore"
    /\ UNCHANGED <<schedVars, fault, restVars, histVars,
                   sched_lock, frames, ctx, diskVars>>

\* Process::activate: restore the saved registers and ret to the
\* post-deactivate site, or switch_to_usermode's iretq on the first entry
activate_restore ==
    /\ fault = "none"
    /\ pc = "activate_restore"
    /\ HasTask(tasks, current_task)
    /\ LET t == TaskAt(tasks, current_task) IN
       IF t.process_state = "Some"
       THEN pc' = "resumed" /\ frames' = ctx[t.pid] /\ UNCHANGED rflags_if
       ELSE pc' = "user" /\ frames' = <<>> /\ rflags_if' = TRUE
    /\ UNCHANGED <<schedVars, fault, restVars, histVars, sched_lock, ctx, diskVars>>

\* deactivate returned true: swap_tasks and tick return, the handler's
\* guard is dropped
resumed ==
    /\ fault = "none"
    /\ pc = "resumed"
    /\ sched_lock' = FALSE
    /\ pc' = "irq_ret"
    /\ UNCHANGED <<schedVars, fault, restVars, histVars, rflags_if, frames, ctx, diskVars>>

\* the handler's iretq: back to the interrupted code, with its RFLAGS
irq_ret ==
    /\ fault = "none"
    /\ pc = "irq_ret"
    /\ pc' = Head(frames)
    /\ frames' = Tail(frames)
    /\ rflags_if' = TRUE
    /\ UNCHANGED <<schedVars, fault, restVars, histVars, sched_lock, ctx, diskVars>>

NextIrq ==
    \/ init_lock
    \/ init_push_task
    \/ init_enable
    \/ init_return
    \/ timer_interrupt
    \/ irq_eoi
    \/ irq_lock
    \/ irq_tick
    \/ activate
    \/ activate_restore
    \/ resumed
    \/ irq_ret

SpecIrq == Init /\ [][NextIrq]_vars

(* ------------------------------------------------------------------ *)
(* AHCI sector I/O: read_sectors / write_sectors against the port     *)
(* ------------------------------------------------------------------ *)

Lowest(S) == CHOOSE i \in S : \A j \in S : i <= j

\* find_command_slot: i ranges over 0..((CAP >> 8) & 0xF0); slots >> i on a
\* u32 overflows for i >= 32 (a panic with overflow checks, i mod 32 without)
find_command_slot(sact, ci, caphi) ==
    LET bound == (caphi \div 16) * 16
        slots == sact \cup ci
        low == {i \in 0..(bound - 1) : i < 32 /\ i \notin slots}
        high == {i \in 0..(bound - 1) : i >= 32 /\ (i % 32) \notin slots}
    IN  IF low # {} THEN [kind |-> "Some", slot |-> Lowest(low)]
        ELSE IF bound > 32 /\ overflow_checks THEN [kind |-> "panic", slot |-> 0]
        ELSE IF high # {} THEN [kind |-> "Some", slot |-> Lowest(high)]
        ELSE [kind |-> "None", slot |-> 0]

\* a completion that skips the last read of IS
Completion_unchecked(is) == "Ok"

\* the read of IS after the poll loop: Err(TaskFileError) or Ok
Completion(is) == IF TFES \in is THEN "TaskFileError" ELSE "Ok"

\* an issue that writes the whole command list
Issued_all(ci, s) == ci \cup {s, s + 1}

\* command_issue |= 1 << slot
Issued(ci, s) == ci \cup {s}

\* 512 * sector_count as usize - 1: the mathematical value; below zero the
\* usize wraps (or the build panics)
ByteCount(n) == 512 * n - 1

\* HBAPRDTEntryBitField::with_byte_count: the field holds the low 22 bits of
\* its argument (a wrapped usize and the value it wrapped from agree there)
with_byte_count(v) == v % 2^22

\* read_sectors / write_sectors up to the wait for the device: clear IS, find a
\* slot (expect), fill the header, translate the buffer (`?`), fill PRDT[0]
\* and the CFIS.  `mapped` is whether the buffer's address translates: the
\* heap buffer read_sectors allocates does, the dangling pointer of an empty
\* Vec (sector_count 0, or an empty buffer handed to write_sectors) need not
io_start(o, n, mapped) ==
    /\ fault = "none"
    /\ dpc = "idle"
    /\ ncalls < MaxCalls
    /\ (o = "read" /\ n > 0) => mapped
    /\ ncalls' = ncalls + 1
    /\ op' = o
    /\ sector_count' = n
    /\ IS' = {}
    /\ ci_set' = <<>>
    /\ seen' = "none"
    /\ LET f == find_command_slot(SACT, CI, cap_hi) IN
       IF f.kind # "Some"
       THEN \* expect("No free command slots"), or the shift overflow
            /\ fault' = "panic"
            /\ result' = "none"
            /\ UNCHANGED <<slot, dpc, prdt>>
       ELSE /\ slot' = f.slot
            /\ IF ~mapped
               THEN \* .ok_or(NoCommandSlots)?
                    /\ result' = "NoCommandSlots"
                    /\ UNCHANGED <<fault, dpc, prdt>>
               ELSE \E asserts \in BOOLEAN :
                    IF overflow_checks
                       /\ (n = 0 \/ (asserts /\ ByteCount(n) >= 2^22))
                    THEN \* 512 * sector_count as usize - 1 underflows, or
                         \* the setter's debug assertion on the field width
                         /\ fault' = "panic"
                         /\ result' = "none"
                         /\ UNCHANGED <<dpc, prdt>>
                    ELSE /\ prdt' = [byte_count |-> with_byte_count(ByteCount(n)),
                                     interrupt |-> 1]
                         /\ result' = "none"
                         /\ dpc' = "wait_tfd"
                         /\ UNCHANGED fault
    /\ UNCHANGED <<schedVars, notPrdt, histVars, irqVars,
                   cap_hi, SACT, CI, TFD, halted>>

\* the loop on TFD: leave it once BSY and DRQ are both clear
io_wait_tfd ==
    /\ fault = "none"
    /\ dpc = "wait_tfd"
    /\ dpc' = IF TFD \cap {TFD_BSY, TFD_DRQ} = {} THEN "issue" ELSE "wait_tfd"
    /\ UNCHANGED <<schedVars, fault, restVars, histVars, irqVars,
                   cap_hi, SACT, CI, IS, TFD, halted, op, sector_count, slot,
                   result, ci_set, seen, ncalls>>

\* write CI with the slot's bit added
io_issue ==
    /\ fault = "none"
    /\ dpc = "issue"
    /\ CI' = Issued(CI, slot)
    /\ ci_set' = ci_set \o SetToSeq(CI' \ CI)
    /\ dpc' = "poll_ci"
    /\ UNCHANGED <<schedVars, fault, restVars, histVars, irqVars,
                   cap_hi, SACT, IS, TFD, halted, op, sector_count, slot,
                   result, seen, ncalls>>

\* the poll loop's read of CI
io_poll_ci ==
    /\ fault = "none"
    /\ dpc = "poll_ci"
    /\ IF slot \notin CI
       THEN dpc' = "final_is" /\ seen' = "ci_clear"
       ELSE dpc' = "poll_is" /\ UNCHANGED seen
    /\ UNCHANGED <<schedVars, fault, restVars, histVars, irqVars,
                   cap_hi, SACT, CI, IS, TFD, halted, op, sector_count, slot,
                   result, ci_set, ncalls>>

\* the poll loop's read of IS
io_poll_is ==
    /\ fault = "none"
    /\ dpc = "poll_is"
    /\ IF TFES \in IS
       THEN dpc' = "idle" /\ result' = "TaskFileError" /\ seen' = "tfes"
       ELSE dpc' = "poll_ci" /\ UNCHANGED <<result, seen>>
    /\ UNCHANGED <<schedVars, fault, restVars, histVars, irqVars,
                   cap_hi, SACT, CI, IS, TFD, halted, op, sector_count, slot,
                   ci_set, ncalls>>

\* the read of IS after the loop, and the return
io_final_is ==
    /\ fault = "none"
    /\ dpc = "final_is"
    /\ result' = Completion(IS)
    /\ dpc' = "idle"
    /\ UNCHANGED <<schedVars, fault, restVars, histVars, irqVars,
                   cap_hi, SACT, CI, IS, TFD, halted, op, sector_count, slot,
                   ci_set, seen, ncalls>>

\* the device completes an issued command: the HBA clears its CI bit
hw_complete(s) ==
    /\ s \in CI
    /\ ~halted
    /\ CI' = CI \ {s}
    /\ UNCHANGED <<schedVars, fault, restVars, histVars, irqVars,
                   cap_hi, SACT, IS, TFD, halted, dpc, op, sector_count, slot,
                   result, ci_set, seen, ncalls>>

\* the device fails a command and the HBA retires it: CI bit cleared with
\* IS.TFES raised
hw_fail(s) ==
    /\ s \in CI
    /\ ~halted
    /\ CI' = CI \ {s}
    /\ IS' = IS \cup {TFES}
    /\ UNCHANGED <<schedVars, fault, restVars, histVars, irqVars,
                   cap_hi, SACT, TFD, halted, dpc, op, sector_count, slot,
                   result, ci_set, seen, ncalls>>

\* the device fails a command and the HBA stops: IS.TFES raised, CI left as
\* it is until the port is restarted (the driver never restarts it)
hw_task_file_error ==
    /\ CI # {}
    /\ ~halted
    /\ IS' = IS \cup {TFES}
    /\ halted' = TRUE
    /\ UNCHANGED <<schedVars, fault, restVars, histVars, irqVars,
                   cap_hi, SACT, CI, TFD, dpc, op, sector_count, slot,
                   result, ci_set, seen, ncalls>>

\* the device raises or drops BSY / DRQ
hw_tfd(bits) ==
    /\ bits # TFD
    /\ TFD' = bits
    /\ UNCHANGED <<schedVars, fault, restVars, histVars, irqVars,
                   cap_hi, SACT, CI, IS, halted, dpc, op, sector_count, slot,
                   result, ci_set, seen, ncalls>>

NextDisk ==
    \/ \E o \in {"read", "write"}, n \in SectorCounts, mapped \in BOOLEAN :
          io_start(o, n, mapped)
    \/ io_wait_tfd
    \/ io_issue
    \/ io_poll_ci
    \/ io_poll_is
    \/ io_final_is
    \/ \E s \in CI : hw_complete(s)
    \/ \E s \in CI : hw_fail(s)
    \/ hw_task_file_error
    \/ \E bits \in {{}, {TFD_BSY}, {TFD_DRQ}} : hw_tfd(bits)

SpecDisk == InitDisk /\ [][NextDisk]_vars

(* ------------------------------------------------------------------ *)
(* Scheduler invariants                                               *)
(* ------------------------------------------------------------------ *)

\* C1: at most one queued task is RUNNING, and a RUNNING task sits at
\* index current_task
C1_UniqueRunning ==
    \A i \in 1..Len(tasks) :
        tasks[i].state = "RUNNING" => current_task = i - 1

\* a second task runs while the first, already preempted once, waits its turn
C1_Witness ==
    /\ Len(tasks) >= 2
    /\ current_task = 1
    /\ tasks[2].state = "RUNNING"
    /\ tasks[1].state = "READY"
    /\ tasks[1].process_state = "Some"

PushedPids == {2 * n + 1 : n \in 0..((next_task_id \div 2) - 1)}

C6_Claim ==
    [][\A p \in Pids(tasks) :
          (StateOf(tasks, p) = "DONE" /\ p \in Pids(tasks'))
              => StateOf(tasks', p) \notin {"READY", "RUNNING"}]_vars

(* ------------------------------------------------------------------ *)
(* Round-robin timing (busy-loop tasks)                               *)
(* ------------------------------------------------------------------ *)

\* C3: with k tasks that never block or exit, a READY task has never waited
\* k*QUANTUM timer ticks without being activated
C3_BoundedWait ==
    \A p \in Pids(tasks) :
        StateOf(tasks, p) = "READY" => since[p] < Len(tasks) * QUANTUM

\* the third of three tasks has waited a whole round less one tick
C3_Witness ==
    /\ Len(tasks) = 3
    /\ is_enabled
    /\ nswitch >= 2
    /\ \E p \in Pids(tasks) :
          StateOf(tasks, p) = "READY" /\ since[p] = 3 * QUANTUM - 1

\* C4: after n ticks of an enabled scheduler whose quantum expiries all found
\* a task, floor(n / QUANTUM) context switches have occurred, and a tick that
\* counts less than QUANTUM switches nothing
C4_SwitchCount ==
    /\ [](nempty = 0 => nswitch = nticks \div QUANTUM)
    /\ [][nswitch' # nswitch => current_task_ticks + 1 >= QUANTUM]_vars

\* three quanta have gone by over two tasks
C4_Witness ==
    /\ Len(tasks) >= 2
    /\ nempty = 0
    /\ nticks >= 3 * QUANTUM
    /\ nswitch = 3

(* ------------------------------------------------------------------ *)
(* Interrupt masking on the switch path                               *)
(* ------------------------------------------------------------------ *)

\* C5 as stated: from the handler's EOI write until control is back in the
\* task (user code or the post-deactivate site) interrupts stay disabled
C5_Claim == pc \in SwitchCode => ~rflags_if

(* ------------------------------------------------------------------ *)
(* AHCI command issue and completion                                  *)
(* ------------------------------------------------------------------ *)

Returned == dpc = "idle" /\ result # "none"

C8_ResultMatchesStatus ==
    [][(dpc \in {"poll_is", "final_is"} /\ dpc' = "idle")
          => /\ result' \in {"Ok", "TaskFileError"}
             /\ result' = "TaskFileError" <=> TFES \in IS
             /\ result' = "Ok" <=> (slot \notin CI /\ TFES \notin IS)]_vars

\* a call whose CI bit cleared has returned TaskFileError: TFES was set in
\* the read after the loop
C8_Witness ==
    /\ Returned
    /\ result = "TaskFileError"
    /\ seen = "ci_clear"
    /\ TFES \in IS

\* the slots CAP.NCS reports: 0..NCS
ReportedSlots(caphi) == 0..(caphi % 32)

\* C9 as stated: find_command_slot returns the lowest slot reported by
\* CAP.NCS whose bit in SACT | CI is 0, and None exactly when all are busy
C9_Claim ==
    LET free == ReportedSlots(cap_hi) \ (SACT \cup CI)
        f == find_command_slot(SACT, CI, cap_hi)
    IN  IF free = {} THEN f.kind = "None"
        ELSE f.kind = "Some" /\ f.slot = Lowest(free)

\* C10 as stated: a call that finds no free command slot returns
\* NoCommandSlots instead of aborting, and NoCommandSlots is returned only then
C10_Claim ==
    [][(dpc = "idle" /\ ncalls' = ncalls + 1)
          => LET f == find_command_slot(SACT, CI, cap_hi) IN
             /\ f.kind = "None" => (result' = "NoCommandSlots" /\ fault' = "none")
             /\ result' = "NoCommandSlots" => f.kind = "None"]_vars

(* ------------------------------------------------------------------ *)
(* Concurrent callers of read_sectors / write_sectors on one port     *)
(* ------------------------------------------------------------------ *)

\* the positions of a call that holds the guard PORTS.lock() returned
InCall == {"setup", "wait_tfd", "issue", "poll_ci", "poll_is", "final_is"}

\* a lock that is handed to every caller
LockFree_always(lk) == TRUE

\* spin::Mutex::lock returns only once the mutex is free
LockFree(lk) == lk = 0

notPorts == <<schedVars, overflow_checks, histVars, irqVars, dpc, op,
              sector_count, slot, result, ci_set, seen,
    devVars,
    frameVars,
    heapVars,
    heapLockVars,
    pageVars,
    elfVars,
    rsdpVars,
    pciVars,
    fsVars,
    dirVars,
    syscallVars,
    cmdVars,
    stackVars>>

\* the call's return: the guard is dropped at the end of the function
Return(c, r) ==
    /\ cpc' = [cpc EXCEPT ![c] = "out"]
    /\ cres' = [cres EXCEPT ![c] = r]
    /\ ports_lock' = 0
    /\ stale' = stale \cup (CI \cap {cslot[c]})

\* a task calls read_sectors / write_sectors: PORTS.lock() starts spinning
call_enter(c) ==
    /\ fault = "none"
    /\ cpc[c] = "out"
    /\ ncalls < MaxCalls
    /\ ncalls' = ncalls + 1
    /\ cpc' = [cpc EXCEPT ![c] = "lock"]
    /\ UNCHANGED <<notPorts, prdt, fault, cap_hi, SACT, CI, IS, TFD, halted,
                   ports_lock, cslot, cres, stale>>

\* PORTS.lock() returns the guard
call_lock(c) ==
    /\ fault = "none"
    /\ cpc[c] = "lock"
    /\ LockFree(ports_lock)
    /\ ports_lock' = c
    /\ cpc' = [cpc EXCEPT ![c] = "setup"]
    /\ UNCHANGED <<notPorts, prdt, fault, cap_hi, SACT, CI, IS, TFD, halted,
                   cslot, cres, stale, ncalls>>

\* clear IS, find a slot (expect), fill the header, translate the buffer
\* (`?`), fill PRDT[0] and the CFIS
call_setup(c, mapped) ==
    /\ fault = "none"
    /\ cpc[c] = "setup"
    /\ IS' = {}
    /\ LET f == find_command_slot(SACT, CI, cap_hi) IN
       IF f.kind # "Some"
       THEN /\ fault' = "panic"
            /\ UNCHANGED <<ports_lock, cpc, cslot, cres, stale, prdt>>
       ELSE IF ~mapped
            THEN /\ Return(c, "NoCommandSlots")
                 /\ UNCHANGED <<fault, cslot, prdt>>
            ELSE /\ cslot' = [cslot EXCEPT ![c] = f.slot]
                 /\ cpc' = [cpc EXCEPT ![c] = "wait_tfd"]
                 /\ prdt' = [byte_count |-> with_byte_count(ByteCount(1)),
                             interrupt |-> 1]
                 /\ UNCHANGED <<fault, ports_lock, cres, stale>>
    /\ UNCHANGED <<notPorts, cap_hi, SACT, CI, TFD, halted, ncalls>>

\* the loop on TFD
call_wait_tfd(c) ==
    /\ fault = "none"
    /\ cpc[c] = "wait_tfd"
    /\ TFD \cap {TFD_BSY, TFD_DRQ} = {}
    /\ cpc' = [cpc EXCEPT ![c] = "issue"]
    /\ UNCHANGED <<notPorts, prdt, fault, cap_hi, SACT, CI, IS, TFD, halted,
                   ports_lock, cslot, cres, stale, ncalls>>

\* write CI with the slot's bit added
call_issue(c) ==
    /\ fault = "none"
    /\ cpc[c] = "issue"
    /\ CI' = Issued(CI, cslot[c])
    /\ cpc' = [cpc EXCEPT ![c] = "poll_ci"]
    /\ UNCHANGED <<notPorts, prdt, fault, cap_hi, SACT, IS, TFD, halted,
                   ports_lock, cslot, cres, stale, ncalls>>

\* the poll loop's read of CI
call_poll_ci(c) ==
    /\ fault = "none"
    /\ cpc[c] = "poll_ci"
    /\ cpc' = [cpc EXCEPT ![c] = IF cslot[c] \notin CI THEN "final_is"
                                  ELSE "poll_is"]
    /\ UNCHANGED <<notPorts, prdt, fault, cap_hi, SACT, CI, IS, TFD, halted,
                   ports_lock, cslot, cres, stale, ncalls>>

\* the poll loop's read of IS
call_poll_is(c) ==
    /\ fault = "none"
    /\ cpc[c] = "poll_is"
    /\ IF TFES \in IS
       THEN Return(c, "TaskFileError")
       ELSE /\ cpc' = [cpc EXCEPT ![c] = "poll_ci"]
            /\ UNCHANGED <<ports_lock, cres, stale>>
    /\ UNCHANGED <<notPorts, prdt, fault, cap_hi, SACT, CI, IS, TFD, halted,
                   cslot, ncalls>>

\* the read of IS after the loop, and the return
call_final_is(c) ==
    /\ fault = "none"
    /\ cpc[c] = "final_is"
    /\ Return(c, Completion(IS))
    /\ UNCHANGED <<notPorts, prdt, fault, cap_hi, SACT, CI, IS, TFD, halted,
                   cslot, ncalls>>

NextPorts ==
    \/ \E c \in Callers : call_enter(c)
    \/ \E c \in Callers : call_lock(c)
    \/ \E c \in Callers, mapped \in BOOLEAN : call_setup(c, mapped)
    \/ \E c \in Callers : call_wait_tfd(c)
    \/ \E c \in Callers : call_issue(c)
    \/ \E c \in Callers : call_poll_ci(c)
    \/ \E c \in Callers : call_poll_is(c)
    \/ \E c \in Callers : call_final_is(c)
    \/ \E s \in CI : hw_complete(s)
    \/ \E s \in CI : hw_fail(s)
    \/ hw_task_file_error
    \/ \E bits \in {{}, {TFD_BSY}, {TFD_DRQ}} : hw_tfd(bits)

SpecPorts == Init /\ [][NextPorts]_vars

\* C11 as stated: at most one call is inside read_sectors / write_sectors on
\* the port at any moment, and at most one driver-issued CI bit is set
C11_Claim ==
    /\ Cardinality({c \in Callers : cpc[c] \in InCall}) <= 1
    /\ Cardinality(CI) <= 1

\* C11 amended: a caller past PORTS.lock() holds the lock until it returns, so
\* at most one call is in progress and every CI bit that no returned call left
\* behind is the slot bit of the call in progress; a further CI bit is one
\* that a call returning TaskFileError left set on a stopped HBA
C11_OneCallInProgress ==
    /\ \A c \in Callers : cpc[c] \in InCall <=> ports_lock = c
    /\ Cardinality(CI \ stale) <= 1
    /\ \A s \in CI \ stale :
          /\ ports_lock # 0
          /\ cslot[ports_lock] = s
          /\ cpc[ports_lock] \in {"poll_ci", "poll_is", "final_is"}
    /\ stale # {} => halted

\* one caller polls its command while the other, whose earlier call
\* returned Ok, spins on PORTS
C11_Witness ==
    /\ \E c, d \in Callers :
          /\ c # d
          /\ cpc[c] = "poll_is"
          /\ cslot[c] \in CI
          /\ cpc[d] = "lock"
          /\ cres[d] = "Ok"

(* ------------------------------------------------------------------ *)
(* init_device: bringing up one port                                  *)
(* ------------------------------------------------------------------ *)

\* bits of port.command_status: ST, FRE, the low bit of CCS, FR, CR
CMD_ST == 0
CMD_FRE == 4
CMD_CCS0 == 8
CMD_FR == 14
CMD_CR == 15

\* the bits the last write to CMD ORs in: 0x01 | 0x100
StartBits == {0, 8}

\* the bits of CMD that the HBA keeps to itself (CCS, FR and CR are read-only)
CmdReadOnly == {CMD_CCS0, CMD_FR, CMD_CR}

\* write_volatile to port.command_status: read-only bits keep their value
CmdWrite(old, value) == (value \ CmdReadOnly) \cup (old \cap CmdReadOnly)

\* the state the firmware leaves the port in
hw_port_state(pi, ssts, cmd) ==
    /\ ipc = "reset"
    /\ port_implemented' = pi
    /\ sata_status' = ssts
    /\ command_status' = cmd
    /\ ipc' = "check_pi"
    /\ UNCHANGED <<notDev, fault, cr_clear_seen>>

\* (*hba_ptr).port_implemented & (1 << i)
dev_check_pi ==
    /\ ipc = "check_pi"
    /\ ipc' = IF port_implemented THEN "check_ssts" ELSE "skipped"
    /\ UNCHANGED <<notDev, fault, port_implemented, sata_status, command_status,
                   cr_clear_seen>>

\* (sata_status & 0x101) != 0x101
dev_check_ssts ==
    /\ ipc = "check_ssts"
    /\ ipc' = IF {0, 8} \subseteq sata_status THEN "clear" ELSE "skipped"
    /\ UNCHANGED <<notDev, fault, port_implemented, sata_status, command_status,
                   cr_clear_seen>>

\* clear start and FIS receive enable
dev_clear ==
    /\ ipc = "clear"
    /\ command_status' = CmdWrite(command_status,
                                  command_status \ {CMD_ST, CMD_FRE})
    /\ ipc' = "wait_stop"
    /\ UNCHANGED <<notDev, fault, port_implemented, sata_status, cr_clear_seen>>

\* the loop until FR and CR both read clear
dev_wait_stop ==
    /\ ipc = "wait_stop"
    /\ IF CMD_FR \notin command_status /\ CMD_CR \notin command_status
       THEN ipc' = "wait_cr" /\ cr_clear_seen' = TRUE
       ELSE UNCHANGED <<ipc, cr_clear_seen>>
    /\ UNCHANGED <<notDev, fault, port_implemented, sata_status, command_status>>

\* the command list, FIS buffer and command tables are set up; then the loop
\* until CR reads clear
dev_wait_cr ==
    /\ ipc = "wait_cr"
    /\ IF CMD_CR \notin command_status
       THEN ipc' = "start" /\ cr_clear_seen' = TRUE
       ELSE UNCHANGED <<ipc, cr_clear_seen>>
    /\ UNCHANGED <<notDev, fault, port_implemented, sata_status, command_status>>

\* command_value |= 0x01 | 0x100; the port is pushed onto `ports`
dev_start ==
    /\ ipc = "start"
    /\ command_status' = CmdWrite(command_status, command_status \cup StartBits)
    /\ ipc' = "up"
    /\ UNCHANGED <<notDev, fault, port_implemented, sata_status, cr_clear_seen>>

\* the HBA follows ST with CR and FRE with FR
hw_cmd_engine ==
    /\ ipc # "reset"
    /\ \E b \in {CMD_FR, CMD_CR} :
          LET en == IF b = CMD_CR THEN CMD_ST ELSE CMD_FRE IN
          /\ (b \in command_status) # (en \in command_status)
          /\ command_status' = IF en \in command_status
                               THEN command_status \cup {b}
                               ELSE command_status \ {b}
    /\ UNCHANGED <<notDev, fault, port_implemented, sata_status, ipc,
                   cr_clear_seen>>

NextDev ==
    \/ \E pi \in BOOLEAN, ssts \in {{}, {0}, {0, 8}, {0, 1, 8}},
          cmd \in SUBSET {CMD_ST, CMD_FRE, CMD_FR, CMD_CR} :
              hw_port_state(pi, ssts, cmd)
    \/ dev_check_pi
    \/ dev_check_ssts
    \/ dev_clear
    \/ dev_wait_stop
    \/ dev_wait_cr
    \/ dev_start
    \/ hw_cmd_engine

SpecDev == Init /\ [][NextDev]_vars

\* C12 as stated: a port that init_device brings up ends initialisation with
\* CMD.ST and CMD.FRE both set, after CMD.CR was read clear
C12_Claim ==
    ipc = "up" => /\ CMD_ST \in command_status
                  /\ CMD_FRE \in command_status
                  /\ cr_clear_seen

(* ------------------------------------------------------------------ *)
(* The PRDT byte count                                                *)
(* ------------------------------------------------------------------ *)

\* C13 as stated: for every sector count n the call accepts, PRDT[0] holds
\* byte count 512*n - 1 exactly, with the interrupt bit set
C13_Claim ==
    dpc \in {"wait_tfd", "issue", "poll_ci", "poll_is", "final_is"}
        => prdt = [byte_count |-> 512 * sector_count - 1, interrupt |-> 1]

(* ------------------------------------------------------------------ *)
(* Frame allocators (memory.rs)                                       *)
(* ------------------------------------------------------------------ *)

\* a MemoryRegion: a FrameRange of frame numbers and whether it is Usable
Region == [start : 0..MaxFrame, end : 0..MaxFrame, usable : BOOLEAN]

\* the maps the bootloader hands over: regions sorted by address that do
\* not overlap
MemoryMaps ==
    {m \in UNION {[1..k -> Region] : k \in 0..MaxRegions} :
        /\ \A i \in DOMAIN m : m[i].start <= m[i].end
        /\ \A i, j \in DOMAIN m : i < j => m[i].end <= m[j].start}

\* (start_addr..end_addr).step_by(4096) mapped through containing_address:
\* region addresses are multiples of 4096, so these are the frame numbers
RangeFrames(r) == [i \in 1..(r.end - r.start) |-> r.start + i - 1]

\* usable_frames: the frames of the Usable regions, in map order
RECURSIVE usable_frames(_)
usable_frames(m) ==
    IF m = <<>> THEN <<>>
    ELSE (IF Head(m).usable THEN RangeFrames(Head(m)) ELSE <<>>)
            \o usable_frames(Tail(m))

SomeFrame(f) == [some |-> TRUE, frame |-> f]
NoFrame == [some |-> FALSE, frame |-> 0]

\* Iterator::nth(n) / the n+1-th next(): the element at 0-based index n
Nth(frs, n) == IF n < Len(frs) THEN SomeFrame(frs[n + 1]) ELSE NoFrame

\* an allocator that never advances
LinearNext_keep(n) == n

\* self.next += 1
LinearNext(n) == n + 1

\* BootInfoFrameAllocator::init(memory_map, used)
fa_init_boot_info(m, used) ==
    /\ fa_kind = "none"
    /\ fa_kind' = "BootInfo"
    /\ memory_map' = m
    /\ fa_used' = used
    /\ fa_next' = used
    /\ UNCHANGED <<notFrames, fault, returned>>

\* LinearFrameAllocator::init(memory_map)
fa_init_linear(m) ==
    /\ fa_kind = "none"
    /\ fa_kind' = "Linear"
    /\ memory_map' = m
    /\ fa_next' = 0
    /\ UNCHANGED <<notFrames, fault, fa_used, returned>>

\* BootInfoFrameAllocator::allocate_frame: self.frame_iter.next()
boot_info_allocate_frame ==
    /\ fa_kind = "BootInfo"
    /\ Len(returned) < MaxAllocs
    /\ returned' = Append(returned, Nth(usable_frames(memory_map), fa_next))
    /\ fa_next' = IF fa_next < Len(usable_frames(memory_map))
                  THEN fa_next + 1 ELSE fa_next
    /\ UNCHANGED <<notFrames, fault, memory_map, fa_kind, fa_used>>

\* LinearFrameAllocator::allocate_frame
linear_allocate_frame ==
    /\ fa_kind = "Linear"
    /\ Len(returned) < MaxAllocs
    /\ fa_next' = LinearNext(fa_next)
    /\ returned' = Append(returned, Nth(usable_frames(memory_map), fa_next'))
    /\ UNCHANGED <<notFrames, fault, memory_map, fa_kind, fa_used>>

NextFrames ==
    \/ /\ fa_kind = "none"
       /\ \E m \in MemoryMaps, used \in 0..MaxUsed : fa_init_boot_info(m, used)
    \/ /\ fa_kind = "none"
       /\ \E m \in MemoryMaps : fa_init_linear(m)
    \/ boot_info_allocate_frame
    \/ linear_allocate_frame

SpecFrames == Init /\ [][NextFrames]_vars

\* C14: over the allocate_frame calls made on one allocator, no physical
\* frame is returned twice
C14_NoFrameTwice ==
    \A i, j \in 1..Len(returned) :
        (i < j /\ returned[i].some /\ returned[j].some)
            => returned[i].frame # returned[j].frame

\* a Linear allocator has handed out frames of two usable regions and then
\* run out
C14_Witness ==
    /\ fa_kind = "Linear"
    /\ Len(memory_map) = 2
    /\ Len(returned) >= 3
    /\ returned[1].some
    /\ returned[2].some
    /\ returned[2].frame >= memory_map[2].start
    /\ ~returned[Len(returned)].some

\* C15 as stated: the n-th allocate_frame call of a freshly initialised
\* allocator returns the n-th usable frame in map order, and None from the
\* call after the last usable frame on
C15_Claim ==
    fa_used = 0 =>
        \A n \in 1..Len(returned) :
            returned[n] = Nth(usable_frames(memory_map), n - 1)

(* ------------------------------------------------------------------ *)
(* The fixed-block kernel heap                                        *)
(* ------------------------------------------------------------------ *)

Max(a, b) == IF a >= b THEN a ELSE b

\* the smallest class that holds max(size, align)
ClassOf(layout) ==
    Lowest({c \in BLOCK_SIZES : c >= Max(layout.size, layout.align)})

AlignUp(a, n) == ((a + n - 1) \div n) * n

\* a dealloc that drops the block
Pushed_lost(list, addr) == list

\* dealloc: push onto the class list
Pushed(list, addr) == <<addr>> \o list

\* alloc(layout): pop from the class list; if empty, carve a fresh block from
\* the bump region
heap_alloc(layout) ==
    /\ Cardinality(live) < MaxLive
    /\ ~alloc_failed
    /\ LET c == ClassOf(layout)
           start == AlignUp(bump_next, c)
       IN  IF free_list[c] # <<>>
           THEN /\ free_list' = [free_list EXCEPT ![c] = Tail(@)]
                /\ live' = live \cup {[addr |-> Head(free_list[c]), layout |-> layout]}
                /\ reused' = TRUE
                /\ UNCHANGED <<bump_next, alloc_failed, carved>>
           ELSE IF start + c > HEAP_SIZE
                THEN /\ alloc_failed' = TRUE
                     /\ UNCHANGED <<free_list, bump_next, live, carved, reused>>
                ELSE /\ bump_next' = start + c
                     /\ live' = live \cup {[addr |-> start, layout |-> layout]}
                     /\ carved' = [carved EXCEPT ![c] = @ \cup {start}]
                     /\ UNCHANGED <<free_list, alloc_failed, reused>>
    /\ peak' = [c \in BLOCK_SIZES |->
                  Max(peak[c], Cardinality({b \in live' : ClassOf(b.layout) = c}))]
    /\ UNCHANGED <<notHeap, fault>>

\* dealloc(ptr, layout) of a live block, with the layout it was allocated at
heap_dealloc(b) ==
    /\ b \in live
    /\ free_list' = [free_list EXCEPT ![ClassOf(b.layout)] = Pushed(@, b.addr)]
    /\ live' = live \ {b}
    /\ UNCHANGED <<notHeap, fault, bump_next, alloc_failed, carved, peak, reused>>

NextHeap ==
    \/ \E layout \in HeapLayouts : heap_alloc(layout)
    \/ \E b \in live : heap_dealloc(b)

SpecHeap == Init /\ [][NextHeap]_vars

HeapLock(c, locked, waiting) ==
    IF heap_lock = "free"
    THEN /\ heap_lock' = c
         /\ hpc' = [hpc EXCEPT ![c] = locked]
         /\ UNCHANGED fault
    ELSE /\ fault' = IF hif THEN fault ELSE "hang"
         /\ hpc' = [hpc EXCEPT ![c] = waiting]
         /\ UNCHANGED heap_lock

\* kernel_main allocates (Box::new in BootInfoFrameAllocator::init, init_heap,
\* Process::new): the lock is taken with interrupts enabled
main_alloc_lock ==
    /\ fault = "none"
    /\ hrun = "main"
    /\ hpc["main"] = "code"
    /\ HeapLock("main", "in_alloc", "code")
    /\ UNCHANGED <<notHeapLock, hrun, hif>>

\* the allocation returns: the guard is dropped
main_alloc_unlock ==
    /\ fault = "none"
    /\ hrun = "main"
    /\ hpc["main"] = "in_alloc"
    /\ heap_lock' = "free"
    /\ hpc' = [hpc EXCEPT !["main"] = "code"]
    /\ UNCHANGED <<notHeapLock, fault, hrun, hif>>

\* a timer interrupt ends the quantum: swap_tasks activates task d; the flow
\* of kernel_main is no task and is never resumed
timer_switch(d) ==
    /\ fault = "none"
    /\ hif
    /\ d \in HeapTasks
    /\ d # hrun
    /\ hrun' = d
    /\ hif' = TRUE
    /\ UNCHANGED <<notHeapLock, fault, heap_lock, hpc>>

\* syscall: SFMASK 0x200 clears IF on entry to syscall_wrapper
sys_enter(t) ==
    /\ fault = "none"
    /\ hrun = t
    /\ hpc[t] = "user"
    /\ hpc' = [hpc EXCEPT ![t] = "setup"]
    /\ hif' = FALSE
    /\ UNCHANGED <<notHeapLock, fault, heap_lock, hrun>>

\* call setup_syscall_stack: alloc takes the heap lock
sys_setup_lock(t) ==
    /\ fault = "none"
    /\ hrun = t
    /\ hpc[t] = "setup"
    /\ HeapLock(t, "setup_locked", "setup")
    /\ UNCHANGED <<notHeapLock, hrun, hif>>

\* alloc returns; sti; the handler is called on the new stack
sys_setup_unlock(t) ==
    /\ fault = "none"
    /\ hrun = t
    /\ hpc[t] = "setup_locked"
    /\ heap_lock' = "free"
    /\ hpc' = [hpc EXCEPT ![t] = "handler"]
    /\ hif' = TRUE
    /\ UNCHANGED <<notHeapLock, fault, hrun>>

\* syscall_handler returns; cli
sys_handler_return(t) ==
    /\ fault = "none"
    /\ hrun = t
    /\ hpc[t] = "handler"
    /\ hpc' = [hpc EXCEPT ![t] = "free_stack"]
    /\ hif' = FALSE
    /\ UNCHANGED <<notHeapLock, fault, heap_lock, hrun>>

\* call delete_syscall_stack: dealloc takes the heap lock
sys_free_lock(t) ==
    /\ fault = "none"
    /\ hrun = t
    /\ hpc[t] = "free_stack"
    /\ HeapLock(t, "free_locked", "free_stack")
    /\ UNCHANGED <<notHeapLock, hrun, hif>>

\* dealloc returns; sysretq restores the task's RFLAGS
sys_free_unlock(t) ==
    /\ fault = "none"
    /\ hrun = t
    /\ hpc[t] = "free_locked"
    /\ heap_lock' = "free"
    /\ hpc' = [hpc EXCEPT ![t] = "user"]
    /\ hif' = TRUE
    /\ UNCHANGED <<notHeapLock, fault, hrun>>

NextHeapLock ==
    \/ main_alloc_lock
    \/ main_alloc_unlock
    \/ \E d \in HeapTasks : timer_switch(d)
    \/ \E t \in HeapTasks : sys_enter(t)
    \/ \E t \in HeapTasks : sys_setup_lock(t)
    \/ \E t \in HeapTasks : sys_setup_unlock(t)
    \/ \E t \in HeapTasks : sys_handler_return(t)
    \/ \E t \in HeapTasks : sys_free_lock(t)
    \/ \E t \in HeapTasks : sys_free_unlock(t)

SpecHeapLock == Init /\ [][NextHeapLock]_vars

\* C17 as stated: no execution deadlocks on the heap spin lock: code that
\* tries to allocate with interrupts disabled never finds the lock held by a
\* context that was preempted, so the lock is always acquired in the end
C17_Claim ==
    /\ fault # "hang"
    /\ \A t \in HeapTasks :
          (hrun = t /\ ~hif /\ hpc[t] \in {"setup", "free_stack"})
              => heap_lock \in {"free", t}

(* ------------------------------------------------------------------ *)
(* Process::new_page_table                                            *)
(* ------------------------------------------------------------------ *)

\* a copy loop that starts one entry late
KernelHalf_late == 2..(ENTRY_COUNT - 1)

\* for i in 1..512
KernelHalf == 1..(ENTRY_COUNT - 1)

\* the table an entry points to, through the physical memory offset
TableOf(entry) == phys[entry.addr]

\* spawn_from_file calls new_page_table on the active level 4 table; `l4`,
\* `l3` and `l2` are what the kernel's PML4, PDPT and PD hold, `n` the frames
\* the allocator still has
npt_call(l4, l3, l2, n) ==
    /\ npc = "idle"
    /\ current_page_table' =
          [l4 EXCEPT ![0] = [addr |-> KERNEL_PDPT, flags |-> PRESENT_WRITABLE]]
    /\ phys' = [phys EXCEPT
                  ![KERNEL_PDPT] =
                      [l3 EXCEPT ![0] = [addr |-> KERNEL_PD,
                                         flags |-> PRESENT_WRITABLE]],
                  ![KERNEL_PD] = l2]
    /\ free_frames' = SubSeq(SetToSeq(UsableFrames), 1, n)
    /\ npc' = "new"
    /\ UNCHANGED <<notPages, fault, page_table, npt_result>>

\* Box::new(PageTable::new()); zero(); page_table[0].set_addr(allocate_frame()?)
npt_new ==
    /\ npc = "new"
    /\ IF free_frames = <<>>
       THEN /\ npc' = "idle_done"
            /\ npt_result' = "None"
            /\ UNCHANGED <<page_table, free_frames>>
       ELSE /\ page_table' = [ZeroTable EXCEPT ![0] =
                                [addr |-> Head(free_frames),
                                 flags |-> PRESENT_WRITABLE_USER]]
            /\ free_frames' = Tail(free_frames)
            /\ npc' = "copy_l4"
            /\ UNCHANGED npt_result
    /\ UNCHANGED <<notPages, fault, current_page_table, phys>>

\* page_table[i] = current_page_table[i].clone()
npt_copy_l4 ==
    /\ npc = "copy_l4"
    /\ page_table' = [i \in TableIndex |->
                        IF i \in KernelHalf THEN current_page_table[i]
                        ELSE page_table[i]]
    /\ npc' = "copy_l3"
    /\ UNCHANGED <<notPages, fault, current_page_table, phys, free_frames,
                   npt_result>>

\* page_table_0.zero(); page_table_0[i] = current_table_0[i].clone()
npt_copy_l3 ==
    /\ npc = "copy_l3"
    /\ LET zeroed == [phys EXCEPT ![page_table[0].addr] = ZeroTable]
           current_table_0 == zeroed[current_page_table[0].addr]
       IN  phys' = [zeroed EXCEPT ![page_table[0].addr] =
                      [i \in TableIndex |->
                          IF i \in KernelHalf THEN current_table_0[i]
                          ELSE zeroed[page_table[0].addr][i]]]
    /\ npc' = "vga"
    /\ UNCHANGED <<notPages, fault, current_page_table, page_table, free_frames,
                   npt_result>>

\* page_table_0[0].set_addr(allocate_frame()?);
\* page_table_0_0[0] = current_table_0_0[0].clone()
npt_vga ==
    /\ npc = "vga"
    /\ IF free_frames = <<>>
       THEN /\ npt_result' = "None"
            /\ UNCHANGED <<phys, free_frames>>
       ELSE LET f0 == page_table[0].addr
                f00 == Head(free_frames)
                with0 == [phys EXCEPT ![f0][0] =
                            [addr |-> f00, flags |-> PRESENT_WRITABLE]]
                current_table_0_0 ==
                    with0[with0[current_page_table[0].addr][0].addr]
            IN  /\ phys' = [with0 EXCEPT ![f00][0] = current_table_0_0[0]]
                /\ free_frames' = Tail(free_frames)
                /\ npt_result' = "Some"
    /\ npc' = "idle_done"
    /\ UNCHANGED <<notPages, fault, current_page_table, page_table>>

NextPages ==
    \/ /\ npc = "idle"
       /\ \E l4, l3 \in [TableIndex -> KernelEntries],
             l2 \in {ZeroTable,
                     [ZeroTable EXCEPT ![0] = [addr |-> 5,
                                               flags |-> PRESENT_WRITABLE]]},
             n \in 0..2 :
                npt_call(l4, l3, l2, n)
    \/ npt_new
    \/ npt_copy_l4
    \/ npt_copy_l3
    \/ npt_vga

SpecPages == Init /\ [][NextPages]_vars

\* C18: in every PML4 new_page_table returns, entries 1.. equal the kernel
\* PML4's entries at the same indices, and so do entries 1.. of its entry-0
\* PDPT and of the kernel's entry-0 PDPT
C18_KernelHalfCopied ==
    npt_result = "Some" =>
        /\ \A i \in 1..(ENTRY_COUNT - 1) :
              page_table[i] = current_page_table[i]
        /\ \A i \in 1..(ENTRY_COUNT - 1) :
              TableOf(page_table[0])[i] = TableOf(current_page_table[0])[i]

\* a PML4 was produced from kernel tables whose upper entries are in use and
\* differ from one another
C18_Witness ==
    /\ npt_result = "Some"
    /\ current_page_table[1] # UnusedEntry
    /\ current_page_table[ENTRY_COUNT - 1] # current_page_table[1]
    /\ TableOf(current_page_table[0])[1] # UnusedEntry
    /\ page_table[0].addr \in UsableFrames
    /\ page_table[0] # current_page_table[0]

(* ------------------------------------------------------------------ *)
(* elf::do_stuff                                                      *)
(* ------------------------------------------------------------------ *)

\* x86_64::align_down
align_down(addr, align) == addr - (addr % align)

\* x86_64::align_up
align_up(addr, align) == align_down(addr + align - 1, align)

Min(a, b) == IF a <= b THEN a ELSE b

\* mem_size / 0x1000 + 1
page_count(h) == (h.mem_size \div PAGE_SIZE) + 1

\* the page addresses the allocation loop visits
AllocatedPages(h) ==
    {i * PAGE_SIZE + align_down(h.virt_addr, PAGE_SIZE) :
        i \in 0..(page_count(h) - 1)}

\* the pages of [virt_addr, virt_addr + mem_size), aligned down and up
SegmentPages(h) ==
    {p \in align_down(h.virt_addr, PAGE_SIZE)
              ..align_up(h.virt_addr + h.mem_size, PAGE_SIZE) - 1 :
        p % PAGE_SIZE = 0}

\* page.as_ptr(): a leaf of the BTreeMap keeps its values one after the
\* other in key order
PagePtr(p) == vals_ptr + PAGE_SIZE * Cardinality({q \in regions : q < p})

\* mapper.translate_addr of a heap address: its physical address
translate_addr(ptr) ==
    (FIRST_HEAP_FRAME + (ptr \div PAGE_SIZE)) * PAGE_SIZE + (ptr % PAGE_SIZE)

\* PhysFrame::containing_address
containing_address(pa) == pa \div PAGE_SIZE

\* translation of user address p + k through the process's tables
UserTranslate(p, k) == user_map[p] * PAGE_SIZE + k

\* do_stuff is called; the header is valid
elf_start(vp) ==
    /\ epc = "idle"
    /\ vals_ptr' = vp
    /\ epc' = "headers"
    /\ UNCHANGED <<notElf, fault, program_header, headers_seen, regions,
                   copy_i, working_offset, copies, user_map>>

\* a program header whose type is not Load
elf_skip ==
    /\ epc = "headers"
    /\ headers_seen < MaxHeaders
    /\ headers_seen' = headers_seen + 1
    /\ UNCHANGED <<notElf, fault, epc, program_header, regions, vals_ptr,
                   copy_i, working_offset, copies, user_map>>

\* a Load header: allocate pages
elf_allocate(h) ==
    /\ epc = "headers"
    /\ headers_seen < MaxHeaders
    /\ headers_seen' = headers_seen + 1
    /\ program_header' = h
    /\ regions' = regions \cup AllocatedPages(h)
    /\ copy_i' = 0
    /\ working_offset' = 0
    /\ copies' = {}
    /\ epc' = "copy"
    /\ UNCHANGED <<notElf, fault, vals_ptr, user_map>>

\* copy over data: one round of the loop
elf_copy ==
    /\ epc = "copy"
    /\ LET h == program_header
           file_data_page_count == (h.file_size \div PAGE_SIZE) + 1
           lower_bound == h.offset + working_offset
           page_addr == align_down(h.virt_addr + working_offset, PAGE_SIZE)
           write_size == Min(page_addr + PAGE_SIZE,
                             h.file_size - working_offset + 1)
           lower_bound_offset == lower_bound % PAGE_SIZE
       IN  IF copy_i >= file_data_page_count
           THEN /\ epc' = "headers"
                /\ UNCHANGED <<copy_i, working_offset, copies>>
           ELSE IF \/ working_offset > h.file_size + 1
                   \/ working_offset = h.file_size + 1 /\ overflow_checks
                   \/ page_addr \notin regions
                   \/ lower_bound_offset + write_size > PAGE_SIZE
                   \/ lower_bound + write_size > FILE_LEN
           THEN /\ epc' = "panic"
                /\ UNCHANGED <<copy_i, working_offset, copies>>
           ELSE /\ copies' = copies \cup
                       {[page |-> page_addr, at |-> lower_bound_offset,
                         from |-> lower_bound, size |-> write_size]}
                /\ working_offset' = working_offset + write_size
                /\ copy_i' = copy_i + 1
                /\ epc' = "copy"
    /\ UNCHANGED <<notElf, fault, program_header, headers_seen, regions,
                   vals_ptr, user_map>>

\* map pages
elf_map ==
    /\ epc = "headers"
    /\ user_map' = [p \in regions |->
                      containing_address(translate_addr(PagePtr(p)))]
    /\ epc' = "mapped"
    /\ UNCHANGED <<notElf, fault, program_header, headers_seen, regions,
                   vals_ptr, copy_i, working_offset, copies>>

NextElf ==
    \/ /\ epc = "idle"
       /\ \E vp \in ValsPtrs : elf_start(vp)
    \/ elf_skip
    \/ /\ epc = "headers"
       /\ \E h \in ProgramHeaders : elf_allocate(h)
    \/ elf_copy
    \/ elf_map

SpecElf == Init /\ [][NextElf]_vars

\* C19: for every page of the user map and every address v in it,
\* translating v through the process's tables gives the physical address of
\* the byte the loader holds for v
C19_Claim ==
    epc = "mapped" =>
        \A p \in regions : \A k \in InPageOffsets :
            UserTranslate(p, k) = translate_addr(PagePtr(p) + k)

\* C20: the pages allocated and mapped for a PT_LOAD header cover
\* [virt_addr, virt_addr + mem_size), aligned down and up
C20_Claim ==
    /\ epc \in {"copy", "headers", "mapped"} =>
          SegmentPages(program_header) \subseteq regions
    /\ epc = "mapped" =>
          SegmentPages(program_header) \subseteq DOMAIN user_map

\* the file index whose byte the loader put at in-page offset k of page p
\* for the current header; -1 where the page keeps its zero
LoadedFrom(p, k) ==
    LET hit == {c \in copies : c.page = p /\ c.at <= k /\ k < c.at + c.size}
    IN  IF hit = {} THEN -1
        ELSE LET c == CHOOSE x \in hit : \A y \in hit : x.from >= y.from
             IN  c.from + (k - c.at)

\* the addresses compared for a header: the first and last file-backed
\* byte, and the bytes just before and just after them
SegmentProbes(h) ==
    {a \in {h.virt_addr - 1, h.virt_addr, h.virt_addr + h.file_size - 1,
            h.virt_addr + h.file_size} :
        align_down(a, PAGE_SIZE) \in AllocatedPages(h)}

\* C21: after a PT_LOAD segment is loaded, the byte at virt_addr + i is
\* file[offset + i] for every i in [0, file_size), every other byte of the
\* segment's pages is zero, and the copy stays inside the file and the page
C21_Claim ==
    /\ epc # "panic"
    /\ (epc = "headers" /\ program_header # NoHeader) =>
          \A a \in SegmentProbes(program_header) :
             LET h == program_header
                 i == a - h.virt_addr
                 src == LoadedFrom(align_down(a, PAGE_SIZE), a % PAGE_SIZE)
             IN  IF 0 <= i /\ i < h.file_size
                 THEN src = h.offset + i
                 ELSE src = -1

(* ------------------------------------------------------------------ *)
(* acpi::find_rsdp                                                    *)
(* ------------------------------------------------------------------ *)

\* the 20 bytes of the packed structure added up
ByteSum(d) == SIGNATURE_SUM + d.checksum + d.body + d.revision

\* a checksum test that accepts every structure
verify_checksum_any(d) == ByteSum(d) >= 0

\* RSDPDescriptor::verify_checksum
verify_checksum(d) == (ByteSum(d) % 256) = 0

\* physical address of the i-th address scanned
PhysAddr(i) == RSDP_START + RSDP_STEP * (i - 1)

\* acpi::init calls find_rsdp over the window's contents
rsdp_call(mem) ==
    /\ rsdp_result = "none"
    /\ rsdp_i = 0
    /\ rsdp_mem' = mem
    /\ rsdp_i' = 1
    /\ UNCHANGED <<notRsdp, fault, rsdp_result, rsdp_found>>

\* one round of the loop over RSDP_REGION.step_by(0x10), and its end
rsdp_step ==
    /\ rsdp_result = "none"
    /\ rsdp_i >= 1
    /\ IF rsdp_i > Len(rsdp_mem)
       THEN /\ rsdp_result' = "None"
            /\ UNCHANGED <<rsdp_i, rsdp_found>>
       ELSE LET d == rsdp_mem[rsdp_i]
            IN  IF d.signature = "RSD PTR " /\ verify_checksum(d)
                THEN /\ rsdp_result' = IF d.revision = 0 THEN "Some"
                                       ELSE "panic"
                     /\ rsdp_found' = rsdp_i
                     /\ UNCHANGED rsdp_i
                ELSE /\ rsdp_i' = rsdp_i + 1
                     /\ UNCHANGED <<rsdp_result, rsdp_found>>
    /\ UNCHANGED <<notRsdp, fault, rsdp_mem>>

NextRsdp ==
    \/ /\ rsdp_result = "none"
       /\ rsdp_i = 0
       /\ \E mem \in [1..MaxSlots -> Descriptors] : rsdp_call(mem)
    \/ rsdp_step

SpecRsdp == Init /\ [][NextRsdp]_vars

\* the addresses holding the signature and a structure that sums to 0
RsdpCandidates ==
    {i \in 1..Len(rsdp_mem) :
        /\ rsdp_mem[i].signature = "RSD PTR "
        /\ (SIGNATURE_SUM + rsdp_mem[i].checksum + rsdp_mem[i].body
              + rsdp_mem[i].revision) % 256 = 0}

\* C22 as stated: find_rsdp returns the lowest 16-byte aligned address whose
\* first 8 bytes are the signature and whose 20 bytes sum to 0 mod 256, and
\* None if there is none
C22_Claim ==
    rsdp_result # "none" =>
        IF RsdpCandidates = {}
        THEN rsdp_result = "None"
        ELSE /\ rsdp_result = "Some"
             /\ \A i \in RsdpCandidates : rsdp_found <= i
             /\ rsdp_found \in RsdpCandidates

\* C22 amended: the scan stops at the lowest address with the signature and
\* a zero checksum; find_rsdp returns it if its revision is 0 and panics
\* otherwise; it returns None if and only if no address qualifies
C22_LowestCandidate ==
    rsdp_result # "none" =>
        IF RsdpCandidates = {}
        THEN rsdp_result = "None"
        ELSE /\ rsdp_found \in RsdpCandidates
             /\ \A i \in RsdpCandidates : rsdp_found <= i
             /\ PhysAddr(rsdp_found) % RSDP_STEP = 0
             /\ rsdp_result = (IF rsdp_mem[rsdp_found].revision = 0
                               THEN "Some" ELSE "panic")

\* the RSDP was returned from the second address after a signature with a
\* wrong checksum was skipped at the first
C22_Witness ==
    /\ rsdp_result = "Some"
    /\ rsdp_found = 2
    /\ rsdp_mem[1].signature = "RSD PTR "
    /\ 1 \notin RsdpCandidates

(* ------------------------------------------------------------------ *)
(* pci::enumerate_bus                                                 *)
(* ------------------------------------------------------------------ *)

\* bridge.config_space of the i-th MCFG entry
config_space(i) == ECAM_BASE + (i - 1) * ECAM_WINDOW

\* config_addr, without phys_offset:
\* config_space + (bus << 20 | device << 15 | function << 12)
config_addr(i, b, d, f) ==
    config_space(i) + b * 1048576 + d * 32768 + f * 4096

\* for bus in bridge.start_bus..bridge.end_bus
BusesScanned(r) == r.start_bus..(r.end_bus - 1)

\* DeviceType::from(addr): the kind of configuration space
DeviceTypeFrom(ht) ==
    LET t == ht % 128
    IN  IF t = 0 THEN "Device"
        ELSE IF t = 1 THEN "PCIBridge"
        ELSE IF t = 2 THEN "CardBusBridge"
        ELSE IF t = 127 THEN "None"
        ELSE "panic"

\* check_device: what it pushes for device d of bus b behind entry i
check_device(i, b, d) ==
    LET dev == config[<<b, d>>]
        f0 == dev[0]
    IN  IF DeviceTypeFrom(f0.header_type) # "Device" THEN <<>>
        ELSE IF f0.vendor_id = VENDOR_ABSENT THEN <<>>
        ELSE <<config_addr(i, b, d, 0)>> \o
             (IF f0.header_type >= HEADER_MULTI
              THEN LET fs == {f \in 1..(FUNCTION_COUNT - 1) :
                                dev[f].vendor_id # VENDOR_ABSENT}
                   IN  [k \in 1..Cardinality(fs) |->
                          config_addr(i, b, d,
                             CHOOSE f \in fs :
                                Cardinality({g \in fs : g < f}) = k - 1)]
              ELSE <<>>)

\* the first <<entry, bus>> at or after entry i that the loops visit, or
\* <<0, 0>> when the loops are over
NextBus(i, b) ==
    LET ahead == {p \in (1..Len(mcfg)) \X (0..MaxBus) :
                     /\ p[2] \in BusesScanned(mcfg[p[1]])
                     /\ (p[1] > i \/ (p[1] = i /\ p[2] >= b))}
    IN  IF ahead = {} THEN <<0, 0>>
        ELSE CHOOSE p \in ahead : \A q \in ahead :
                p[1] < q[1] \/ (p[1] = q[1] /\ p[2] <= q[2])

\* pci::init calls enumerate_bus
pci_call(m, c) ==
    /\ pci_pc = "idle"
    /\ mcfg' = m
    /\ config' = c
    /\ pci_pc' = "scan"
    /\ bridge_i' = 1
    /\ bus' = m[1].start_bus
    /\ device' = 0
    /\ UNCHANGED <<notPci, fault, devices>>

\* one round of the loops: check_device for the next device, or the end
pci_scan ==
    /\ pci_pc = "scan"
    /\ LET at == NextBus(bridge_i, bus)
       IN  IF at = <<0, 0>>
           THEN /\ pci_pc' = "done"
                /\ UNCHANGED <<bridge_i, bus, device, devices>>
           ELSE LET d == IF at = <<bridge_i, bus>> THEN device ELSE 0
                IN  /\ devices' = devices \o check_device(at[1], at[2], d)
                    /\ IF d + 1 < DEVICE_COUNT
                       THEN /\ bridge_i' = at[1]
                            /\ bus' = at[2]
                            /\ device' = d + 1
                       ELSE /\ bridge_i' = at[1]
                            /\ bus' = at[2] + 1
                            /\ device' = 0
                    /\ UNCHANGED pci_pc
    /\ UNCHANGED <<notPci, fault, mcfg, config>>

NextPci ==
    \/ /\ pci_pc = "idle"
       /\ \E m \in McfgTables,
             c \in [(0..MaxBus) \X (0..(DEVICE_COUNT - 1)) -> DeviceShapes] :
                pci_call(m, c)
    \/ pci_scan

SpecPci == Init /\ [][NextPci]_vars

\* the functions C23 says are recorded
PciExpected ==
    {config_addr(i, b, d, f) :
        <<i, b, d, f>> \in
            {q \in (1..Len(mcfg)) \X (0..MaxBus) \X (0..(DEVICE_COUNT - 1))
                      \X (0..(FUNCTION_COUNT - 1)) :
                /\ mcfg[q[1]].start_bus <= q[2]
                /\ q[2] <= mcfg[q[1]].end_bus
                /\ config[<<q[2], q[3]>>][0].vendor_id # VENDOR_ABSENT
                /\ \/ q[4] = 0
                   \/ /\ config[<<q[2], q[3]>>][0].header_type >= HEADER_MULTI
                      /\ config[<<q[2], q[3]>>][q[4]].vendor_id
                            # VENDOR_ABSENT}}

\* C23: enumerate_bus records exactly the functions present on the buses
\* start_bus..end_bus (end_bus included) of every MCFG entry: function 0 when
\* its vendor_id is not 0xFFFF, functions 1.. when function 0 is present and
\* multifunction and their own vendor_id is not 0xFFFF
C23_Claim ==
    pci_pc = "done" => {devices[k] : k \in 1..Len(devices)} = PciExpected

(* ------------------------------------------------------------------ *)
(* fs::File::get_data                                                 *)
(* ------------------------------------------------------------------ *)

\* fat_size, root_dir_sectors (u16 arithmetic) and first_data_sector
first_data_sector(b) ==
    LET fat_size == IF b.table_size_16 = 0 THEN b.table_size_32
                    ELSE b.table_size_16
        root_dir_sectors ==
            ((b.root_entry_count * 32 + b.bytes_per_sector - 1) % U16)
               \div b.bytes_per_sector
    IN  b.reserved_sector_count + b.table_count * fat_size + root_dir_sectors

\* (cluster_idx - 2) * sectors_per_cluster + first_data_sector
first_sector(f, b) ==
    (f.cluster - 2) * b.sectors_per_cluster + first_data_sector(b)

\* file_size / bytes_per_sector + 1
sector_count_of(f, b) == (f.file_size \div b.bytes_per_sector) + 1

\* get_data up to its call of read_sectors(.., first_sector as u64,
\* sector_count as u16)
fs_get_data(f, b) ==
    /\ fs_pc = "idle"
    /\ fs_file' = f
    /\ boot_sector' = b
    /\ fs_request' = [first_sector |-> first_sector(f, b),
                      sector_count |-> sector_count_of(f, b) % U16]
    /\ fs_pc' = "reading"
    /\ UNCHANGED <<notFs, fault, fs_data>>

\* read_sectors returns Err: get_data passes it on with `?`
fs_read_err ==
    /\ fs_pc = "reading"
    /\ fs_data' = "Err"
    /\ fs_pc' = "done"
    /\ UNCHANGED <<notFs, fault, fs_file, boot_sector, fs_request>>

\* read_sectors returns its buffer of 512 * sector_count bytes;
\* cluster_data.set_len(file_size)
fs_read_ok ==
    /\ fs_pc = "reading"
    /\ fs_data' = [len |-> fs_file.file_size,
                   capacity |-> SECTOR_BYTES * fs_request.sector_count]
    /\ fs_pc' = "done"
    /\ UNCHANGED <<notFs, fault, fs_file, boot_sector, fs_request>>

NextFs ==
    \/ /\ fs_pc = "idle"
       /\ \E f \in FsFiles, b \in BootSectors : fs_get_data(f, b)
    \/ fs_read_err
    \/ fs_read_ok

SpecFs == Init /\ [][NextFs]_vars

\* ceil(n / d)
CeilDiv(n, d) == (n + d - 1) \div d

\* C24: get_data reads exactly ceil(file_size / bytes_per_sector) sectors
\* starting at (c - 2) * sectors_per_cluster + first_data_sector, and
\* returns exactly file_size bytes of the data read
C24_Claim ==
    fs_pc # "idle" =>
        /\ fs_request.first_sector =
              (fs_file.cluster - 2) * boot_sector.sectors_per_cluster
                 + (boot_sector.reserved_sector_count
                      + boot_sector.table_count * boot_sector.table_size_32)
        /\ fs_request.sector_count =
              CeilDiv(fs_file.file_size, boot_sector.bytes_per_sector)
        /\ (fs_pc = "done" /\ fs_data # "Err") =>
              /\ fs_data.len = fs_file.file_size
              /\ fs_data.len <= fs_data.capacity

(* ------------------------------------------------------------------ *)
(* fs::parse_directory                                                *)
(* ------------------------------------------------------------------ *)

\* the entries read for cluster c; clusters never written hold zeroes
ClusterEntries(c) ==
    IF c \in DOMAIN disk THEN disk[c]
    ELSE [i \in 1..EntriesPerCluster |-> DirEntry(ENTRY_END, 0, "", 0)]

\* file.attributes.directory() == 1
IsDirectory(e) == (e.attributes \div ATTR_DIRECTORY) % 2 = 1

\* fs::init parses the root directory of the volume d
pd_call(d) ==
    /\ pd_pc = "idle"
    /\ disk' = d
    /\ pd_stack' = <<[cluster_idx |-> ROOT_CLUSTER, entry |-> 1, parent |-> 0]>>
    /\ parses' = {[cluster |-> ROOT_CLUSTER, parent |-> 0]}
    /\ pd_pc' = "parsing"
    /\ UNCHANGED <<notDir, fault, attached>>

\* one round of the innermost call's loops: the next entry of its cluster,
\* or the step to the next cluster
pd_step ==
    /\ pd_pc = "parsing"
    /\ LET n == Len(pd_stack)
           fr == pd_stack[n]
           below == SubSeq(pd_stack, 1, n - 1)
           advanced == [pd_stack EXCEPT ![n].entry = fr.entry + 1]
       IN  IF fr.entry > EntriesPerCluster
           THEN /\ pd_stack' = [pd_stack EXCEPT
                                  ![n].cluster_idx = fr.cluster_idx + 1,
                                  ![n].entry = 1]
                /\ UNCHANGED <<pd_pc, attached, parses>>
           ELSE LET e == ClusterEntries(fr.cluster_idx)[fr.entry]
                IN  IF e.byte0 = ENTRY_END
                    THEN /\ pd_stack' = below
                         /\ pd_pc' = IF below = <<>> THEN "done" ELSE "parsing"
                         /\ UNCHANGED <<attached, parses>>
                    ELSE IF e.byte0 = ENTRY_DELETED
                    THEN /\ pd_stack' = advanced
                         /\ UNCHANGED <<pd_pc, attached, parses>>
                    ELSE IF e.attributes = ATTR_LFN \/ e.name = "not utf-8"
                    THEN /\ pd_pc' = "panic"
                         /\ UNCHANGED <<pd_stack, attached, parses>>
                    ELSE IF e.name \in {".", ".."}
                    THEN /\ pd_stack' = advanced
                         /\ UNCHANGED <<pd_pc, attached, parses>>
                    ELSE /\ attached' =
                              Append(attached, [parent |-> fr.parent, file |-> e])
                         /\ IF IsDirectory(e)
                            THEN /\ pd_stack' =
                                      Append(advanced,
                                             [cluster_idx |-> e.cluster,
                                              entry |-> 1,
                                              parent |-> Len(attached) + 1])
                                 /\ parses' = parses \cup
                                      {[cluster |-> e.cluster,
                                        parent |-> Len(attached) + 1]}
                            ELSE /\ pd_stack' = advanced
                                 /\ UNCHANGED parses
                         /\ UNCHANGED pd_pc
    /\ UNCHANGED <<notDir, fault, disk>>

NextDir ==
    \/ /\ pd_pc = "idle"
       /\ \E d \in [ROOT_CLUSTER..MaxCluster ->
                       UNION {[1..EntriesPerCluster -> EntryShapes(c)] :
                                 c \in ROOT_CLUSTER..MaxCluster}] :
             /\ \A c \in ROOT_CLUSTER..MaxCluster :
                   \A i \in 1..EntriesPerCluster : d[c][i] \in EntryShapes(c)
             /\ pd_call(d)
    \/ pd_step

SpecDir == Init /\ [][NextDir]_vars

\* the entries of cluster c before its first entry with byte 0 = 0x00
BeforeEnd(c) ==
    LET es == ClusterEntries(c)
        ends == {i \in 1..Len(es) : es[i].byte0 = ENTRY_END}
        last == IF ends = {} THEN Len(es)
                ELSE (CHOOSE i \in ends : \A j \in ends : i <= j) - 1
    IN  SubSeq(es, 1, last)

\* is the entry one C25 has recorded
Recorded(e) == e.byte0 # ENTRY_DELETED /\ e.name \notin {".", ".."}

\* the entries attached to node p, in push order
ChildrenOf(p) ==
    LET own == SelectSeq(attached, LAMBDA a : a.parent = p)
    IN  [i \in 1..Len(own) |-> own[i].file]

\* C25: for every directory cluster parsed, the children attached to the
\* parent are, in on-disk order, exactly the entries before the first 0x00
\* entry, without the 0xE5 entries and '.' and '..', each equal to the raw
\* entry; every recorded DIRECTORY entry has its cluster parsed as its subtree
C25_Claim ==
    /\ pd_pc # "panic"
    /\ pd_pc = "done" =>
          /\ \A q \in parses :
                ChildrenOf(q.parent) = SelectSeq(BeforeEnd(q.cluster), Recorded)
          /\ \A n \in 1..Len(attached) :
                IsDirectory(attached[n].file) =>
                   [cluster |-> attached[n].file.cluster, parent |-> n]
                      \in parses

(* ------------------------------------------------------------------ *)
(* syscall_wrapper and syscall_handler                                *)
(* ------------------------------------------------------------------ *)

\* the task executes syscall: the wrapper saves the registers, sets up the
\* stack and calls syscall_handler(rax, rdi, rsi, rdx, r10)
sc_syscall(a) ==
    /\ sc_pc = "user"
    /\ sc_args' = a
    /\ sc_rax' = a.id
    /\ sc_console' = "nothing"
    /\ sc_pc' = "handler"
    /\ UNCHANGED <<notSyscall, fault>>

\* syscall_handler: println! of its five arguments, then 0
sc_handler ==
    /\ sc_pc = "handler"
    /\ sc_console' = "numbers"
    /\ sc_rax' = 0
    /\ sc_pc' = "free"
    /\ UNCHANGED <<notSyscall, fault, sc_args>>

\* cli; pop rdi; call delete_syscall_stack: rax is a scratch register of the
\* call
sc_free_stack(v) ==
    /\ sc_pc = "free"
    /\ sc_rax' = v
    /\ sc_pc' = "returned"
    /\ UNCHANGED <<notSyscall, fault, sc_args, sc_console>>

\* sysretq; the task goes on in user mode
sc_sysret ==
    /\ sc_pc = "returned"
    /\ sc_pc' = "user"
    /\ UNCHANGED <<notSyscall, fault, sc_args, sc_rax, sc_console>>

NextSyscall ==
    \/ /\ sc_pc = "user"
       /\ \E a \in SyscallArgs : sc_syscall(a)
    \/ sc_handler
    \/ /\ sc_pc = "free"
       /\ \E v \in ScratchValues : sc_free_stack(v)
    \/ sc_sysret

SpecSyscall == Init /\ [][NextSyscall]_vars

\* C26: a system call returns to user mode, for id 0, 0 when the len bytes
\* at ptr are valid UTF-8 and -1 when they are not, writing nothing to the
\* console in that case; for an unknown id, 0
C26_Claim ==
    sc_pc = "returned" =>
        /\ (sc_args.id = 0 /\ sc_args.utf8) => sc_rax = 0
        /\ (sc_args.id = 0 /\ ~sc_args.utf8) =>
              (sc_rax = -1 /\ sc_console = "nothing")
        /\ sc_args.id \notin {0, 1} => sc_rax = 0

(* ------------------------------------------------------------------ *)
(* Scheduler::push_task: the PIDs handed out                          *)
(* ------------------------------------------------------------------ *)

\* the PIDs of every task pushed so far: those queued and those removed
KnownPids == Pids(tasks) \cup {t.pid : t \in dropped}

\* C27: every push_task returns a PID no earlier push_task returned, and
\* appends the new task at the back of the queue in state READY
C27_FreshPid ==
    [][Len(tasks') > Len(tasks) =>
          LET new == tasks'[Len(tasks')]
          IN  /\ tasks' = Append(tasks, new)
              /\ new.state = "READY"
              /\ new.pid \notin KnownPids
              /\ new.pid = next_task_id + 1]_vars

\* a third task was pushed after an earlier task had been removed from
\* the queue
C27_Witness ==
    /\ dropped # {}
    /\ Len(tasks) >= 1
    /\ tasks[Len(tasks)].pid = 2 * MaxPush - 1
    /\ tasks[Len(tasks)].state = "READY"
    /\ next_task_id = 2 * MaxPush

(* ------------------------------------------------------------------ *)
(* Scheduler::get_next_task: the order of selection                   *)
(* ------------------------------------------------------------------ *)

\* a step in which swap_tasks selected a task: the task at the new cursor
\* is RUNNING and either was not RUNNING before or the quantum ran out
SwapSelected ==
    /\ fault' = "none"
    /\ HasTask(tasks', current_task')
    /\ TaskAt(tasks', current_task').state = "RUNNING"
    /\ \/ is_enabled /\ Expired /\ current_task_ticks' = 0
       \/ \E i \in 1..Len(tasks) :
             /\ tasks[i].pid = TaskAt(tasks', current_task').pid
             /\ tasks[i].state # "RUNNING"

\* distance of queue index i from the slot after the cursor, going round
RoundFrom(cur, n, i) ==
    LET start == IF cur + 1 >= n THEN 0 ELSE cur + 1
    IN  (i - start + n) % n

\* the READY tasks other than the outgoing one
OtherReady ==
    {i \in 0..(Len(tasks) - 1) :
        i # current_task /\ TaskAt(tasks, i).state = "READY"}

\* C28: the task swap_tasks selects is the first READY task after the
\* outgoing task's position in cyclic queue order, the outgoing task itself
\* only if no other task is READY; WAITING tasks keep their state and the
\* queue keeps its order, whatever DONE entries are removed on the way
C28_FirstReadyAfter ==
    [][SwapSelected =>
          LET sel == TaskAt(tasks', current_task').pid
              n == Len(tasks)
          IN  /\ IF OtherReady # {}
                 THEN \E i \in OtherReady :
                         /\ TaskAt(tasks, i).pid = sel
                         /\ \A j \in OtherReady :
                               RoundFrom(current_task, n, i)
                                  <= RoundFrom(current_task, n, j)
                 ELSE /\ HasTask(tasks, current_task)
                      /\ TaskAt(tasks, current_task).pid = sel
              /\ \A i \in 1..n :
                    (tasks[i].state = "WAITING") =>
                       \E k \in 1..Len(tasks') :
                          /\ tasks'[k].pid = tasks[i].pid
                          /\ tasks'[k].state = "WAITING"
              /\ \A k, l \in 1..Len(tasks') :
                    k < l =>
                       \E i, j \in 1..n :
                          /\ i < j
                          /\ tasks[i].pid = tasks'[k].pid
                          /\ tasks[j].pid = tasks'[l].pid]_vars

\* a task was selected behind a WAITING task after a DONE entry had been
\* removed from the queue
C28_Witness ==
    /\ Len(tasks) = 2
    /\ tasks[1].state = "WAITING"
    /\ tasks[2].state = "RUNNING"
    /\ current_task = 1
    /\ dropped # {}

(* ------------------------------------------------------------------ *)
(* The quantum of an activated task                                   *)
(* ------------------------------------------------------------------ *)

\* the ticks the RUNNING task has been counted since its activation; a task
\* off the CPU has none
Ran(ts, cur, old, elapsed, activated) ==
    [p \in Pids(ts) |->
        IF /\ HasTask(ts, cur)
           /\ TaskAt(ts, cur).pid = p
           /\ TaskAt(ts, cur).state = "RUNNING"
           /\ p # activated
           /\ p \in DOMAIN old
        THEN old[p] + elapsed
        ELSE 0]

\* tick with the ticks since the activation counted
tick_timed ==
    /\ tick_core
    /\ since' = IF ~is_enabled
                THEN since
                ELSE Ran(tasks', current_task', since, 1,
                         IF Expired THEN TickSwap.activated ELSE NoPid)
    /\ UNCHANGED <<nticks, nswitch, nempty, acts, irqVars, diskVars>>

\* push_task; the new task has not run
push_task_timed ==
    /\ push_task_core
    /\ since' = Ran(tasks', current_task', since, 0, NoPid)
    /\ UNCHANGED <<nticks, nswitch, nempty, acts, dropped, irqVars, diskVars>>

\* block_current with the activation recorded
block_current_timed ==
    /\ block_current_core
    /\ since' = Ran(tasks', current_task', since, 0, BlockSwap.activated)
    /\ UNCHANGED <<nticks, nswitch, nempty, acts, irqVars, diskVars>>

\* end_current_task with the activation recorded
end_current_task_timed ==
    /\ end_current_task_core
    /\ since' = IF HasTask(tasks, current_task)
                THEN Ran(tasks', current_task', since, 0, EndSwap.activated)
                ELSE since
    /\ UNCHANGED <<nticks, nswitch, nempty, acts, irqVars, diskVars>>

NextQuantum ==
    \/ enable
    \/ push_task_timed
    \/ tick_timed
    \/ block_current_timed
    \/ \E pid \in 1..(2 * MaxPush) : end_task(pid)
    \/ end_current_task_timed

SpecQuantum == Init /\ [][NextQuantum]_vars

\* the task at the cursor is RUNNING
Running ==
    HasTask(tasks, current_task) /\ TaskAt(tasks, current_task).state = "RUNNING"

\* a step that takes the RUNNING task off the CPU or activates it anew
Activation ==
    /\ HasTask(tasks', current_task')
    /\ TaskAt(tasks', current_task').state = "RUNNING"
    /\ \/ ~Running
       \/ TaskAt(tasks', current_task').pid # TaskAt(tasks, current_task).pid
       \/ current_task_ticks' < current_task_ticks

\* C29: an activated task starts with the tick counter at 0, the timer
\* preempts a RUNNING task at the tick that counts QUANTUM ticks since its
\* activation and at no other, and the counter is below QUANTUM after
\* every tick
C29_ExactQuantum ==
    /\ [](current_task_ticks < QUANTUM)
    /\ [](Running => current_task_ticks = since[TaskAt(tasks, current_task).pid])
    /\ [][Activation => current_task_ticks' = 0]_vars
    /\ [][(tick_timed /\ is_enabled /\ Running) =>
             LET p == TaskAt(tasks, current_task).pid
             IN  IF since[p] + 1 = QUANTUM
                 THEN /\ current_task_ticks' = 0
                      /\ \/ fault' # "none"
                         \/ Activation
                 ELSE /\ since[p] + 1 < QUANTUM
                      /\ current_task_ticks' = current_task_ticks + 1
                      /\ tasks' = tasks
                      /\ current_task' = current_task]_vars

\* a task activated by block_current has run QUANTUM - 1 ticks, with another
\* task READY behind it
C29_Witness ==
    /\ Running
    /\ Len(tasks) >= 2
    /\ since[TaskAt(tasks, current_task).pid] = QUANTUM - 1
    /\ \E i \in 1..Len(tasks) : tasks[i].state = "WAITING"
    /\ \E i \in 1..Len(tasks) : tasks[i].state = "READY"

(* ------------------------------------------------------------------ *)
(* Timer interrupts before Scheduler::enable                          *)
(* ------------------------------------------------------------------ *)

\* the handler's code, from the interrupt gate to its iretq
HandlerCode == {"irq_eoi", "irq_lock", "irq_tick", "irq_ret"}

\* C30: until enable() has been called, a timer interrupt's tick leaves the
\* tick counter, current_task, the queue and every task state as they were
\* and returns to the handler's iretq without a context switch, however
\* many interrupts kernel initialisation takes
C30_TickBeforeEnable ==
    /\ [][(pc = "irq_tick" /\ ~is_enabled) =>
             /\ UNCHANGED <<tasks, current_task_ticks, next_task_id,
                            current_task, is_enabled>>
             /\ ctx' = ctx
             /\ pc' = "irq_ret"]_vars
    /\ [][(pc \in HandlerCode /\ ~is_enabled) =>
             /\ UNCHANGED <<tasks, current_task_ticks, next_task_id,
                            current_task, is_enabled>>
             /\ pc' \notin {"activate", "activate_restore", "user", "resumed"}]_vars
    /\ [](~is_enabled => /\ current_task_ticks = 0
                         /\ current_task = USIZE_MAX - 1
                         /\ \A i \in 1..Len(tasks) : tasks[i].state = "READY")

\* tick has returned to the handler during initialisation, the scheduler
\* not yet enabled
C30_Witness ==
    /\ pc = "irq_ret"
    /\ frames = <<"k_init">>
    /\ ~is_enabled
    /\ ~sched_lock
    /\ fault = "none"

(* ------------------------------------------------------------------ *)
(* Scheduler::get_next_task: the panic on a RUNNING entry             *)
(* ------------------------------------------------------------------ *)

\* C35: no swap_tasks the scheduler can execute, from tick, block_current or
\* end_current_task, has its search examine a task in state RUNNING, so
\* the "Process falsely claims to be running" panic is never raised
C35_NoRunningExamined ==
    fault = "none" =>
        /\ (is_enabled /\ Expired) => TickSwap.why # "running"
        /\ BlockSwap.why # "running"
        /\ HasTask(tasks, current_task) => EndSwap.why # "running"

\* the quantum of the RUNNING task is about to expire with every other task
\* WAITING: the search goes once round the queue, back to the outgoing task
C35_Witness ==
    /\ fault = "none"
    /\ is_enabled
    /\ Expired
    /\ Running
    /\ Len(tasks) = 3
    /\ \A i \in 0..2 : i # current_task => TaskAt(tasks, i).state = "WAITING"
    /\ TickSwap.activated = TaskAt(tasks, current_task).pid

(* ------------------------------------------------------------------ *)
(* Scheduler::get_next_task: termination and cursor arithmetic        *)
(* ------------------------------------------------------------------ *)

\* the swap_tasks calls that can be executed in this state
SwapCalls ==
    (IF is_enabled /\ Expired THEN {TickSwap} ELSE {})
       \cup {BlockSwap}
       \cup (IF HasTask(tasks, current_task) THEN {EndSwap} ELSE {})

\* C36 as stated: every swap_tasks call completes, get_next_task never
\* loops for ever, also when every remaining task is WAITING
C36_Claim ==
    fault = "none" => \A sw \in SwapCalls : sw.outcome # "hang"

\* C37 as stated: when the last remaining task ends through
\* end_current_task the DONE entry is removed and swap_tasks returns with an
\* empty queue (to the halt loop)
C37_Claim ==
    (/\ fault = "none"
     /\ Len(tasks) = 1
     /\ HasTask(tasks, current_task))
        => /\ EndSwap.outcome \notin {"panic", "hang"}
           /\ EndSwap.tasks = <<>>

\* C38 as stated: the cursor arithmetic of get_next_task never leaves the
\* range of usize, and after it returns with a non-empty queue the cursor
\* is a valid index
C38_Claim ==
    fault = "none" =>
        \A sw \in SwapCalls :
            /\ sw.why \notin {"underflow", "overflow"}
            /\ (sw.outcome \in {"ready", "empty"} /\ Len(sw.tasks) > 0)
                  => HasTask(sw.tasks, sw.current_task)

(* ------------------------------------------------------------------ *)
(* The scheduler lock at the entry of the timer handler               *)
(* ------------------------------------------------------------------ *)

\* C33 as stated: whenever the timer interrupt handler runs up to its
\* SCHEDULER.lock(), the scheduler lock is free, so the handler never spins
\* on a lock whose holder it has interrupted
C33_Claim ==
    /\ (pc \in {"irq_eoi", "irq_lock"}) => ~sched_lock
    /\ fault # "hang"

(* ------------------------------------------------------------------ *)
(* Process::activate / deactivate: first entry and resumption         *)
(* ------------------------------------------------------------------ *)

\* Process::activate: a process with a saved context returns into
\* deactivate with "resumed", one without is entered by switch_to_usermode
activate_path(t) ==
    IF t.process_state = "Some" THEN "resumed" ELSE "user"

NoActs == [entered |-> 0, saved |-> 0, resumed |-> 0]

ActsOf(p) == IF p \in DOMAIN acts THEN acts[p] ELSE NoActs

\* the counts after a swap_tasks call: deactivate has run on the task at
\* the cursor, activate on the task selected
Acts(sw) ==
    LET savedPid == IF HasTask(tasks, current_task)
                    THEN TaskAt(tasks, current_task).pid ELSE NoPid
        path == IF sw.activated = NoPid THEN "none"
                ELSE activate_path(TaskAt(sw.tasks, sw.current_task))
    IN  [p \in (DOMAIN acts \cup {savedPid, sw.activated}) \ {NoPid} |->
            [entered |-> ActsOf(p).entered
                           + (IF p = sw.activated /\ path = "user" THEN 1 ELSE 0),
             saved |-> ActsOf(p).saved + (IF p = savedPid THEN 1 ELSE 0),
             resumed |-> ActsOf(p).resumed
                           + (IF p = sw.activated /\ path = "resumed" THEN 1 ELSE 0)]]

\* no process has been saved MaxSaves times yet
SavesLeft == \A p \in DOMAIN acts : acts[p].saved < MaxSaves

\* tick, with the entries, saves and resumptions counted
tick_switched ==
    /\ tick_core
    /\ (is_enabled /\ Expired) => SavesLeft
    /\ acts' = IF is_enabled /\ Expired THEN Acts(TickSwap) ELSE acts
    /\ UNCHANGED <<nticks, nswitch, nempty, since, irqVars, diskVars>>

\* block_current, with the entries, saves and resumptions counted
block_current_switched ==
    /\ block_current_core
    /\ SavesLeft
    /\ acts' = Acts(BlockSwap)
    /\ UNCHANGED <<nticks, nswitch, nempty, since, irqVars, diskVars>>

\* end_current_task, with the entries, saves and resumptions counted
end_current_task_switched ==
    /\ end_current_task_core
    /\ SavesLeft
    /\ acts' = IF HasTask(tasks, current_task) THEN Acts(EndSwap) ELSE acts
    /\ UNCHANGED <<nticks, nswitch, nempty, since, irqVars, diskVars>>

NextActivate ==
    \/ enable
    \/ push_task
    \/ tick_switched
    \/ block_current_switched
    \/ \E pid \in 1..(2 * MaxPush) : end_task(pid)
    \/ end_current_task_switched

SpecActivate == Init /\ [][NextActivate]_vars

\* C31: a process is entered through the first-time iretq path exactly
\* once, on its first activation; every later activation resumes the
\* context of its most recent deactivate, and no saved context is resumed
\* twice
C31_EnteredOnce ==
    /\ \A p \in DOMAIN acts :
          /\ acts[p].entered <= 1
          /\ acts[p].resumed > 0 => acts[p].entered = 1
          /\ acts[p].resumed <= acts[p].saved
          /\ acts[p].saved <= acts[p].resumed + 1
    /\ \A i \in 1..Len(tasks) :
          /\ (tasks[i].process_state = "None") = (ActsOf(tasks[i].pid).saved = 0)
          /\ tasks[i].state = "RUNNING" =>
                /\ ActsOf(tasks[i].pid).entered = 1
                /\ ActsOf(tasks[i].pid).saved = ActsOf(tasks[i].pid).resumed

\* one process has been resumed twice while another has only been entered
C31_Witness ==
    /\ fault = "none"
    /\ \E p, q \in DOMAIN acts :
          /\ acts[p].entered = 1 /\ acts[p].resumed = 2
          /\ acts[q].entered = 1 /\ acts[q].resumed = 0 /\ acts[q].saved = 1

(* ------------------------------------------------------------------ *)
(* read_sectors / write_sectors: the command setup, write by write    *)
(* ------------------------------------------------------------------ *)

\* FISType::RegH2D
FIS_REG_H2D == 39
\* READ DMA EXT and WRITE DMA EXT
CMD_READ == 37
CMD_WRITE == 53
\* cmd_fis.device
DEVICE_LBA == 64
\* size_of::<FISRegH2D>() / size_of::<u32>()
CFL_H2D == 5

\* the lba arguments explored
Lbas == {513, 16909060}

\* u64::to_le_bytes; the arguments explored are below 2^31, their bytes 4
\* to 7 are zero
to_le_bytes(v) ==
    [i \in 0..7 |-> IF i <= 3 THEN (v \div (256^i)) % 256 ELSE 0]

notCmd == <<overflow_checks, portsVars, devVars, frameVars, heapVars,
            heapLockVars, pageVars, elfVars, rsdpVars, pciVars, fsVars, dirVars,
            syscallVars,
    stackVars>>

\* the call: lock the port, clear IS, find_command_slot(..).expect(..)
cmd_start(o, n, l) ==
    /\ fault = "none"
    /\ dpc = "idle"
    /\ ncalls < MaxCalls
    /\ ncalls' = ncalls + 1
    /\ op' = o
    /\ sector_count' = n
    /\ lba' = l
    /\ IS' = {}
    /\ ci_set' = <<>>
    /\ seen' = "none"
    /\ result' = "none"
    /\ cmd_written' = {}
    /\ tfd_read' = <<>>
    /\ LET f == find_command_slot(SACT, CI, cap_hi) IN
       IF f.kind # "Some"
       THEN fault' = "panic" /\ UNCHANGED <<slot, dpc>>
       ELSE slot' = f.slot /\ dpc' = "header" /\ UNCHANGED fault
    /\ UNCHANGED <<schedVars, notCmd, histVars, irqVars, prdt, cmd_header, cmd_fis,
                   cap_hi, SACT, CI, TFD, halted>>

\* bit_field0.set_command_fis_length(..); bit_field0.set_write(..)
cmd_write_header ==
    /\ fault = "none"
    /\ dpc = "header"
    /\ cmd_header' = [cfl |-> CFL_H2D, w |-> IF op = "read" THEN 0 ELSE 1]
    /\ cmd_written' = cmd_written \cup {"header"}
    /\ dpc' = "prdt"
    /\ UNCHANGED <<schedVars, fault, notCmd, histVars, irqVars, prdt, cmd_fis,
                   tfd_read, lba, cap_hi, SACT, CI, IS, TFD, halted, op,
                   sector_count, slot, result, ci_set, seen, ncalls>>

\* translate_addr(..).ok_or(NoCommandSlots)?, then PRDT[0]: data_base,
\* with_byte_count, with_interrupt
cmd_write_prdt(mapped) ==
    /\ fault = "none"
    /\ dpc = "prdt"
    /\ (op = "read" /\ sector_count > 0) => mapped
    /\ IF ~mapped
       THEN /\ result' = "NoCommandSlots"
            /\ dpc' = "idle"
            /\ UNCHANGED <<fault, prdt, cmd_written>>
       ELSE \E asserts \in BOOLEAN :
            IF overflow_checks
               /\ (sector_count = 0 \/ (asserts /\ ByteCount(sector_count) >= 2^22))
            THEN /\ fault' = "panic"
                 /\ UNCHANGED <<result, dpc, prdt, cmd_written>>
            ELSE /\ prdt' = [byte_count |-> with_byte_count(ByteCount(sector_count)),
                             interrupt |-> 1]
                 /\ cmd_written' = cmd_written \cup {"prdt"}
                 /\ dpc' = "cfis"
                 /\ UNCHANGED <<fault, result>>
    /\ UNCHANGED <<schedVars, notCmd, histVars, irqVars, cmd_header, cmd_fis,
                   tfd_read, lba, cap_hi, SACT, CI, IS, TFD, halted, op,
                   sector_count, slot, ci_set, seen, ncalls>>

\* the Register-H2D command FIS, field by field
cmd_write_fis ==
    /\ fault = "none"
    /\ dpc = "cfis"
    /\ LET lbas == to_le_bytes(lba) IN
       cmd_fis' = [fis_type |-> FIS_REG_H2D,
                   c |-> 1,
                   command |-> IF op = "read" THEN CMD_READ ELSE CMD_WRITE,
                   lba |-> <<lbas[0], lbas[1], lbas[2], lbas[3], lbas[4], lbas[5]>>,
                   device |-> DEVICE_LBA,
                   count |-> sector_count]
    /\ cmd_written' = cmd_written \cup {"cfis"}
    /\ dpc' = "wait_tfd"
    /\ UNCHANGED <<schedVars, fault, notCmd, histVars, irqVars, prdt, cmd_header,
                   tfd_read, lba, cap_hi, SACT, CI, IS, TFD, halted, op,
                   sector_count, slot, result, ci_set, seen, ncalls>>

\* a wait that reads TFD once and goes on whatever it read
cmd_wait_tfd_once ==
    /\ fault = "none"
    /\ dpc = "wait_tfd"
    /\ tfd_read' = <<TFD>>
    /\ dpc' = "issue"
    /\ UNCHANGED <<schedVars, fault, notCmd, histVars, irqVars, prdt, cmd_header,
                   cmd_fis, cmd_written, lba, cap_hi, SACT, CI, IS, TFD, halted,
                   op, sector_count, slot, result, ci_set, seen, ncalls>>

\* the loop on TFD: one read, left once BSY and DRQ are both clear
cmd_wait_tfd ==
    /\ fault = "none"
    /\ dpc = "wait_tfd"
    /\ tfd_read' = <<TFD>>
    /\ dpc' = IF TFD \cap {TFD_BSY, TFD_DRQ} = {} THEN "issue" ELSE "wait_tfd"
    /\ UNCHANGED <<schedVars, fault, notCmd, histVars, irqVars, prdt, cmd_header,
                   cmd_fis, cmd_written, lba, cap_hi, SACT, CI, IS, TFD, halted,
                   op, sector_count, slot, result, ci_set, seen, ncalls>>

NextCmd ==
    \/ \E o \in {"read", "write"}, n \in SectorCounts, l \in Lbas : cmd_start(o, n, l)
    \/ cmd_write_header
    \/ \E mapped \in BOOLEAN : cmd_write_prdt(mapped)
    \/ cmd_write_fis
    \/ cmd_wait_tfd
    \/ io_issue
    \/ io_poll_ci
    \/ io_poll_is
    \/ io_final_is
    \/ \E s \in CI : hw_complete(s)
    \/ \E s \in CI : hw_fail(s)
    \/ hw_task_file_error
    \/ \E bits \in {{}, {TFD_BSY}, {TFD_DRQ}} : hw_tfd(bits)

SpecCmd == InitDisk /\ [][NextCmd]_vars

\* the Register-H2D FIS the call in progress has to send
ExpectedFis ==
    [fis_type |-> 39,
     c |-> 1,
     command |-> IF op = "read" THEN 37 ELSE 53,
     lba |-> <<lba % 256, (lba \div 256) % 256, (lba \div 65536) % 256,
               (lba \div 16777216) % 256, 0, 0>>,
     device |-> 64,
     count |-> sector_count]

StackAlive == {t \in StackTasks : st_pc[t] # "gone"}

\* the blocks alloc(Layout(STACK_SIZE, 8)) may return: one that dealloc gave
\* back to the heap, or the next block carved from the heap
StackBlocks == st_pool \cup {st_next}

\* `syscall`: SFMASK = 0x200 clears IF; the wrapper saves the registers on the
\* user stack
st_syscall(t) ==
    /\ st_run = t /\ st_pc[t] = "user"
    /\ st_calls < MaxSyscalls
    /\ st_calls' = st_calls + 1
    /\ st_if' = FALSE
    /\ st_pc' = [st_pc EXCEPT ![t] = "setup"]
    /\ st_frees' = [st_frees EXCEPT ![t] = 0]
    /\ UNCHANGED <<notStack, fault, st_run, st_rsp, st_blk, st_pool, st_next>>

\* call setup_stack; mov r9, rax
setup_syscall_stack(t, b) ==
    /\ st_run = t /\ st_pc[t] = "setup"
    /\ b \in StackBlocks
    /\ st_blk' = [st_blk EXCEPT ![t] = b]
    /\ st_pool' = st_pool \ {b}
    /\ st_next' = IF b = st_next THEN st_next + 1 ELSE st_next
    /\ st_pc' = [st_pc EXCEPT ![t] = "sti"]
    /\ UNCHANGED <<notStack, fault, st_run, st_if, st_rsp, st_frees, st_calls>>

\* sti
st_sti(t) ==
    /\ st_run = t /\ st_pc[t] = "sti"
    /\ st_if' = TRUE
    /\ st_pc' = [st_pc EXCEPT ![t] = "switch"]
    /\ UNCHANGED <<notStack, fault, st_run, st_rsp, st_blk, st_pool, st_next,
                   st_frees, st_calls>>

\* mov rsp, r9; push r9; call syscall_handler
st_switch_stack(t) ==
    /\ st_run = t /\ st_pc[t] = "switch"
    /\ st_rsp' = [st_rsp EXCEPT ![t] = st_blk[t]]
    /\ st_pc' = [st_pc EXCEPT ![t] = "handler"]
    /\ UNCHANGED <<notStack, fault, st_run, st_if, st_blk, st_pool, st_next,
                   st_frees, st_calls>>

\* syscall_handler returns; cli; pop rdi
st_handler_return(t) ==
    /\ st_run = t /\ st_pc[t] = "handler"
    /\ st_if' = FALSE
    /\ st_pc' = [st_pc EXCEPT ![t] = "free"]
    /\ UNCHANGED <<notStack, fault, st_run, st_rsp, st_blk, st_pool, st_next,
                   st_frees, st_calls>>

\* delete_syscall_stack(stack_ptr): dealloc(stack_ptr - STACK_SIZE, layout)
delete_syscall_stack(t) ==
    /\ st_pool' = st_pool \cup {st_blk[t]}
    /\ st_frees' = [st_frees EXCEPT ![t] = @ + 1]

\* call free_stack
st_free_stack(t) ==
    /\ st_run = t /\ st_pc[t] = "free"
    /\ delete_syscall_stack(t)
    /\ st_pc' = [st_pc EXCEPT ![t] = "restore"]
    /\ UNCHANGED <<notStack, fault, st_run, st_if, st_rsp, st_blk, st_next, st_calls>>

\* mov rsp, rbp; pop the saved registers
st_restore(t) ==
    /\ st_run = t /\ st_pc[t] = "restore"
    /\ st_rsp' = [st_rsp EXCEPT ![t] = 0]
    /\ st_pc' = [st_pc EXCEPT ![t] = "sysret"]
    /\ UNCHANGED <<notStack, fault, st_run, st_if, st_blk, st_pool, st_next,
                   st_frees, st_calls>>

\* sysretq: RFLAGS comes back from r11, with IF as the process had it
st_sysret(t) ==
    /\ st_run = t /\ st_pc[t] = "sysret"
    /\ st_if' = TRUE
    /\ st_blk' = [st_blk EXCEPT ![t] = 0]
    /\ st_pc' = [st_pc EXCEPT ![t] = "user"]
    /\ UNCHANGED <<notStack, fault, st_run, st_rsp, st_pool, st_next, st_frees,
                   st_calls>>

\* exit(exit_code, stack_addr), called on the syscall's stack: its first
\* statement, delete_syscall_stack(stack_addr)
exit_delete(t) ==
    /\ st_run = t /\ st_pc[t] = "handler"
    /\ delete_syscall_stack(t)
    /\ st_pc' = [st_pc EXCEPT ![t] = "end_current_task"]
    /\ UNCHANGED <<notStack, fault, st_run, st_if, st_rsp, st_blk, st_next, st_calls>>

\* exit's second statement, SCHEDULER.lock().end_current_task(): the process
\* leaves the queue and the CPU goes to another one, or idles
exit_end_current_task(t, n) ==
    /\ st_run = t /\ st_pc[t] = "end_current_task"
    /\ n \in (StackAlive \ {t}) \cup {"none"}
    /\ (n = "none") = (StackAlive = {t})
    /\ st_run' = n
    /\ st_if' = TRUE
    /\ st_pc' = [st_pc EXCEPT ![t] = "gone"]
    /\ st_rsp' = [st_rsp EXCEPT ![t] = 0]
    /\ UNCHANGED <<notStack, fault, st_blk, st_pool, st_next, st_frees, st_calls>>

\* the timer interrupt preempts the running process for another one
st_timer(n) ==
    /\ st_if
    /\ st_run # "none"
    /\ n \in StackAlive \ {st_run}
    /\ st_run' = n
    /\ UNCHANGED <<notStack, fault, st_if, st_pc, st_rsp, st_blk, st_pool,
                   st_next, st_frees, st_calls>>

NextStack ==
    \/ \E t \in StackTasks : st_syscall(t)
    \/ \E t \in StackTasks : \E b \in 1..MaxSyscalls : setup_syscall_stack(t, b)
    \/ \E t \in StackTasks : st_sti(t)
    \/ \E t \in StackTasks : st_switch_stack(t)
    \/ \E t \in StackTasks : st_handler_return(t)
    \/ \E t \in StackTasks : st_free_stack(t)
    \/ \E t \in StackTasks : st_restore(t)
    \/ \E t \in StackTasks : st_sysret(t)
    \/ \E t \in StackTasks : exit_delete(t)
    \/ \E t \in StackTasks : \E n \in StackTasks \cup {"none"} : exit_end_current_task(t, n)
    \/ \E n \in StackTasks : st_timer(n)

SpecStack == Init /\ [][NextStack]_vars

\* C34: the stack of a syscall is given back to the heap at most once, exactly
\* once by the time the syscall has returned or the process has ended, and it
\* is not in the heap's pool while the handler, exit or end_current_task is
\* still running on it.
C34_Claim ==
    \A t \in StackTasks :
        /\ st_frees[t] <= 1
        /\ (st_pc[t] \in {"sysret", "gone"}) => st_frees[t] = 1
        /\ (st_pc[t] \in {"handler", "end_current_task"}) => st_rsp[t] \notin st_pool

\* ---------------------------------------------------------------------------
\* The hand-over from a LinearFrameAllocator to a BootInfoFrameAllocator over
\* the same memory map (memory.rs).

\* LinearFrameAllocator::get_used
get_used == fa_next

\* BootInfoFrameAllocator::init(memory_map, linear.get_used()): the frames the
\* Linear allocator returned stay handed out
fa_hand_over ==
    /\ fa_kind = "Linear"
    /\ fa_kind' = "BootInfo"
    /\ fa_used' = get_used
    /\ fa_next' = get_used
    /\ UNCHANGED <<notFrames, fault, memory_map, returned>>

NextHandOver ==
    \/ /\ fa_kind = "none"
       /\ \E m \in MemoryMaps : fa_init_linear(m)
    \/ linear_allocate_frame
    \/ fa_hand_over
    \/ boot_info_allocate_frame

SpecHandOver == Init /\ [][NextHandOver]_vars

\* the calls made on the Linear allocator before the hand-over, as positions
\* in the history of returned frames
LinearCalls == 1..fa_used

\* C39: after the hand-over with used = get_used(), no frame the
\* BootInfoFrameAllocator returns was returned by the LinearFrameAllocator
\* before it.
C39_Claim ==
    fa_kind = "BootInfo" =>
        \A i \in LinearCalls : \A j \in (1..Len(returned)) \ LinearCalls :
            (returned[i].some /\ returned[j].some)
                => returned[i].frame # returned[j].frame

====
